---- MODULE Spec2Model ----
(***************************************************************************)
(* Model of the AxiomicAgent core: the stream adapters' cursor, the        *)
(* engine loop (core/engine.py), the signal heads' dispatch, the policies  *)
(* (core/policy.py) and the reporter's bookkeeping.                        *)
(*                                                                         *)
(* Optional values of the Python code are modelled as sequences of length  *)
(* at most one: None is <<>> and a present value x is <<x>>.               *)
(***************************************************************************)
EXTENDS Integers, Sequences, FiniteSets, TLC

VARIABLES
    \* ---- configuration, fixed at construction --------------------------
    adapterKind,     \* registry name of the stream adapter
    scramble,        \* the adapter's scramble flag
    featuresEnabled, \* CurriculumStream._resource_features_enabled
    obs_steps,       \* ProcessedStream.obs_steps : step id -> frame
    true_steps,      \* ProcessedStream.true_steps: step id -> frame
    headNames,       \* core_config["heads"]
    polCfg,          \* the policy: kind and PolicyConfig
    \* ---- adapter cursor --------------------------------------------------
    idx,             \* _idx
    last_step,       \* CreationBlueprintStream._last_step (Optional)
    \* ---- Engine.run locals -----------------------------------------------
    pc,              \* position inside Engine.run / of the driver
    step_index,
    prev_pred,       \* Optional frame
    prev_cumulative, \* Optional frame
    obs_step,        \* frame returned by the last next_obs()
    step_id,
    step_features,   \* Optional feature record handed to compute/heads/reporter
    cumulative,
    signals,         \* set of [key, by] entries of the signals dict
    headPos,         \* index of the head loop over signal_heads
    pred,            \* Optional frame: result of the last Policy.step
    \* ---- reporter ----------------------------------------------------------
    recorded,        \* sequence of the reporter's per-step entries
    head_summaries,  \* Engine.run's local dict: names of the non-empty summaries
    reporter_head_summaries, \* Optional: reporter.summary["head_summaries"]
    finishCalls,     \* number of reporter.finish() calls
    headCalls,       \* per signal head: number of per_step calls recorded
    \* ---- history (ghost) -----------------------------------------------------
    trace,           \* sequence of [ev, t, head] events in call order
    seenLog,         \* per_step calls of the latest step: [head, t, signals seen]
    returned,        \* sequence of the next_obs calls made so far
    \* ---- DefaultSignalComputer driven directly ----------------------------------
    sc_config,       \* SignalConfig: compute_spread, compute_locality
    sc_prev_ted,     \* self._prev_ted (Optional)
    sc_args,         \* Optional: arguments of the last compute call
    sc_out,          \* Optional: Signals returned by the last compute call
    sc_prev_out,     \* Optional: ted reported by the call before the last (ghost)
    \* ---- MonteCarloHead driven as by Engine.run ---------------------------------
    mc_config,       \* num_samples, edge_dropout, weight_jitter
    node_weights,    \* Engine.run's node_weights, taken from the stream
    mc_prev_edges_cache, \* self._prev_edges_cache (Optional)
    mc_frame,        \* Optional: the StepFrame of the last per_step call
    mc_out,          \* Optional: dict returned by the last per_step call
    \* ---- RegimeChangeHead driven directly ---------------------------------------
    rg_config,       \* window, threshold
    rg_history,      \* self._history
    rg_change_points, \* self._change_points
    rg_out,          \* Optional: outcome of the last per_step call
    rg_summary,      \* Optional: dict returned by finalize_course
    \* ---- InsightReporter driven directly ----------------------------------------
    ir_series_q,     \* self._series_q
    ir_series_ted,   \* self._series_ted
    ir_summary,      \* Optional: aggregates and recommendations written by finish
    ir_steps,        \* len(self.summary["steps"])
    ir_kind,         \* the registered reporter class
    ir_active,       \* ConversationInsightReporter._active_domain
    ir_report,       \* Optional: outcome of finish, the keys of the written JSON
    \* ---- domain preprocessors driven directly ----------------------------------
    pp_kind,         \* the preprocessor class: curriculum or conversation
    pp_config,       \* degree cap and whether a stop pattern matches the blank label
    pp_raw,          \* the RawStream handed to process
    pp_out,          \* Optional: the ProcessedStream returned by process
    \* ---- ForecastHead driven directly ------------------------------------------
    fh_window_size,  \* self.window_size
    fh_history,      \* self._history
    fh_step_types,   \* self._step_types
    fh_out,          \* Optional: dict returned by the last per_step call
    \* ---- reporters/curriculum_dynamics.py: CurriculumDynamicsReporter ----------
    cd_steps,        \* summary["steps"]: the step argument of every record call
    cd_regime,       \* summary["head_summaries"]["regime_change"]["change_points"], None while unset
    cd_phases        \* summary["phases"] as written by finish, None before

vars == << adapterKind, scramble, featuresEnabled, obs_steps, true_steps,
           headNames, polCfg, idx, last_step, pc, step_index, prev_pred,
           prev_cumulative, obs_step, step_id, step_features, cumulative,
           signals, headPos, pred, recorded, head_summaries,
           reporter_head_summaries, finishCalls, headCalls, trace, seenLog,
           returned, sc_config, sc_prev_ted, sc_args, sc_out, sc_prev_out,
           mc_config, node_weights, mc_prev_edges_cache, mc_frame, mc_out, rg_config, rg_history,
           rg_change_points, rg_out, rg_summary, ir_series_q, ir_series_ted, ir_summary,
           ir_steps, ir_kind, ir_active, ir_report,
           pp_kind, pp_config, pp_raw, pp_out,
           fh_window_size, fh_history, fh_step_types, fh_out,
           cd_steps, cd_regime, cd_phases >>

configVars == << adapterKind, scramble, featuresEnabled, obs_steps,
                 true_steps, headNames, polCfg >>
adapterVars == << idx, last_step >>
engineVars == << step_index, prev_pred, prev_cumulative, obs_step, step_id,
                 step_features, cumulative, signals, headPos, pred,
                 head_summaries, headCalls >>
reporterVars == << recorded, reporter_head_summaries, finishCalls >>
signalVars == << sc_config, sc_prev_ted, sc_args, sc_out, sc_prev_out >>
mcVars == << mc_config, node_weights, mc_prev_edges_cache, mc_frame, mc_out >>
regimeVars == << rg_config, rg_history, rg_change_points, rg_out, rg_summary >>
insightVars == << ir_series_q, ir_series_ted, ir_summary, ir_steps, ir_kind, ir_active,
                 ir_report >>
preprocVars == << pp_kind, pp_config, pp_raw, pp_out >>
forecastVars == << fh_window_size, fh_history, fh_step_types, fh_out >>
dynamicsVars == << cd_steps, cd_regime, cd_phases >>
laterVars == << preprocVars, forecastVars, dynamicsVars >>
componentVars == << signalVars, mcVars, regimeVars, insightVars, laterVars >>

-----------------------------------------------------------------------------
(* Optional values *)
None == << >>
Some(x) == << x >>
IsNone(o) == o = << >>
OrElse(o, d) == IF o = << >> THEN d ELSE o[1]

Min(a, b) == IF a <= b THEN a ELSE b
Max(a, b) == IF a >= b THEN a ELSE b

-----------------------------------------------------------------------------
(* Edges and their order: Python compares tuples lexicographically *)
EdgeLess(e, f) == e[1] < f[1] \/ (e[1] = f[1] /\ e[2] < f[2])

MinEdge(S) == CHOOSE e \in S : \A f \in S : f = e \/ EdgeLess(e, f)

MaxEdge(S) == CHOOSE e \in S : \A f \in S : f = e \/ EdgeLess(f, e)

\* sorted(..., reverse=True)
RECURSIVE sorted_reverse(_)
sorted_reverse(S) == IF S = {} THEN << >>
                     ELSE LET m == MaxEdge(S) IN << m >> \o sorted_reverse(S \ {m})

RECURSIVE sorted(_)
sorted(S) == IF S = {} THEN << >>
             ELSE LET m == MinEdge(S) IN << m >> \o sorted(S \ {m})

\* every order a Python set holding the edges S may be iterated in
RECURSIVE Orderings(_)
Orderings(S) == IF S = {} THEN { << >> }
                ELSE UNION { { << e >> \o o : o \in Orderings(S \ {e}) } : e \in S }

-----------------------------------------------------------------------------
(* core/policy.py *)

\* int(x) of the float max_edges * sticky_fraction, sticky_fraction = num/den
\* (int() truncates towards zero)
IntOfProduct(max_edges, frac) ==
    LET p == max_edges * frac[1]
    IN  IF p >= 0 THEN p \div frac[2] ELSE 0 - ((0 - p) \div frac[2])

\* the fill loop breaking on `len(selected) > limit`
RECURSIVE FillPastLimit(_, _, _)
FillPastLimit(selected, seq, limit) ==
    IF seq = << >> \/ Cardinality(selected) > limit THEN selected
    ELSE FillPastLimit(selected \cup {Head(seq)}, Tail(seq), limit)

\* for edge in seq: if len(selected) >= limit: break; selected.add(edge)
RECURSIVE FillUpTo(_, _, _)
FillUpTo(selected, seq, limit) ==
    IF seq = << >> \/ Cardinality(selected) >= limit THEN selected
    ELSE FillUpTo(selected \cup {Head(seq)}, Tail(seq), limit)

CountOf(node_counts, n) == IF n \in DOMAIN node_counts THEN node_counts[n] ELSE 0

Bump(node_counts, n) ==
    [m \in DOMAIN node_counts \cup {n} |-> CountOf(node_counts, m) + (IF m = n THEN 1 ELSE 0)]

\* the test that makes _enforce_node_capacity skip an edge
SkipEdge(node_counts, edge, max_nodes) ==
    CountOf(node_counts, edge[1]) >= max_nodes /\ CountOf(node_counts, edge[2]) >= max_nodes

RECURSIVE EnforceLoop(_, _, _, _)
EnforceLoop(order, selected, node_counts, max_nodes) ==
    IF order = << >> THEN selected
    ELSE LET edge == Head(order) IN
         IF SkipEdge(node_counts, edge, max_nodes)
         THEN EnforceLoop(Tail(order), selected, node_counts, max_nodes)
         ELSE EnforceLoop(Tail(order), selected \cup {edge},
                          Bump(Bump(node_counts, edge[1]), edge[2]), max_nodes)

\* _enforce_node_capacity(edges) when the set `edges` is iterated in `order`
enforce_node_capacity(order, edges, cfg) ==
    LET max_nodes == OrElse(cfg.max_nodes, 0)
    IN  IF max_nodes <= 0 THEN edges
        ELSE EnforceLoop(order, {}, << >>, max_nodes)

\* `max_edges is None`
UncappedOnlyNone(cfg) == IsNone(cfg.max_edges)

\* `not max_edges or max_edges <= 0`
Uncapped(cfg) == IsNone(cfg.max_edges) \/ cfg.max_edges[1] = 0 \/ cfg.max_edges[1] <= 0

\* the three fill loops of CapacityPolicy.step
CapacitySelect(cfg, prev_pred_, obs_t) ==
    LET max_edges    == cfg.max_edges[1]
        prev         == OrElse(prev_pred_, {})
        sticky_space == IntOfProduct(max_edges, cfg.sticky_fraction)
        intersection == prev \cap obs_t
        new_edges    == obs_t \ prev
        s1 == FillUpTo({}, sorted(intersection), sticky_space)
        s2 == FillUpTo(s1, sorted(new_edges), max_edges)
        s3 == IF Cardinality(s2) < max_edges
              THEN FillUpTo(s2, sorted(intersection), max_edges) ELSE s2
    IN  s3

\* CapacityPolicy.step: the set of frames it can return, one per iteration
\* order of the selected set inside _enforce_node_capacity
CapacityPolicyStep(cfg, prev_pred_, obs_t) ==
    IF Uncapped(cfg) THEN { obs_t }
    ELSE LET selected == CapacitySelect(cfg, prev_pred_, obs_t) IN
         IF ~IsNone(cfg.max_nodes) /\ cfg.max_nodes[1] # 0
         THEN { enforce_node_capacity(o, selected, cfg) : o \in Orderings(selected) }
         ELSE { selected }

IdentityPolicyStep(cfg, prev_pred_, obs_t) == { obs_t }

PolicyStep(cfg, prev_pred_, obs_t) ==
    IF cfg.kind = "capacity" THEN CapacityPolicyStep(cfg, prev_pred_, obs_t)
    ELSE IdentityPolicyStep(cfg, prev_pred_, obs_t)

-----------------------------------------------------------------------------
(* Bounds and input sets *)

MaxStepId == 1
StepIds == 0 .. MaxStepId

\* the observed frame a dataset may hold for step s
FrameChoices(s) == { {}, { << s, s + 1 >> } }
TruthFrame(s) == { << s, s + 1 >> }

\* the sets of steps a dataset may hold truth edges for
TruthKeySets == { 0 .. k - 1 : k \in 0 .. MaxStepId + 1 }

AdapterKinds == { "curriculum_stream", "conversation_stream", "conversation_brainstorm",
                  "research_learning", "creation_blueprint" }

\* adapters whose cursor is built by `sorted(set(obs_steps) | set(true_steps))`
UnionKinds == { "curriculum_stream", "conversation_stream" }

\* preprocessors that fill ProcessedStream.step_features (one entry per obs step)
FeatureKinds == { "curriculum_stream", "conversation_brainstorm",
                  "research_learning", "creation_blueprint" }

-----------------------------------------------------------------------------
(* Stream adapters: adapters/*/stream.py *)

MinInt(S) == CHOOSE x \in S : \A y \in S : x <= y

RECURSIVE sortedInts(_)
sortedInts(S) == IF S = {} THEN << >>
                 ELSE LET m == MinInt(S) IN << m >> \o sortedInts(S \ {m})

\* self._steps / self._order
StepsOf(kind, obs, tru) ==
    IF kind \in UnionKinds THEN sortedInts(DOMAIN obs \cup DOMAIN tru)
    ELSE sortedInts(DOMAIN obs)

steps == StepsOf(adapterKind, obs_steps, true_steps)

\* _scramble: map the sorted nodes of the frame onto the reversed sorted nodes
RECURSIVE NthSmallest(_, _)
NthSmallest(S, n) == IF n = 1 THEN MinInt(S) ELSE NthSmallest(S \ {MinInt(S)}, n - 1)

Rank(S, x) == Cardinality({ y \in S : y < x }) + 1

Scramble(edges) ==
    LET nodes == { e[1] : e \in edges } \cup { e[2] : e \in edges }
        perm(n) == NthSmallest(nodes, Cardinality(nodes) + 1 - Rank(nodes, n))
    IN  { << perm(e[1]), perm(e[2]) >> : e \in edges }

\* has_more()
has_more(i) == i < Len(steps)

\* next_obs(): the frame returned when the cursor is at i
NextObsFrame(i) ==
    IF i >= Len(steps) THEN {}
    ELSE LET step == steps[i + 1]
             obs  == IF step \in DOMAIN obs_steps THEN obs_steps[step] ELSE {}
         IN  IF adapterKind \in UnionKinds /\ scramble /\ obs # {} THEN Scramble(obs)
             ELSE obs

\* next_obs(): the cursor afterwards
NextObsIdx(i) == IF i >= Len(steps) THEN i ELSE i + 1

\* next_obs(): CreationBlueprintStream._last_step afterwards
NextObsLastStep(i, last) ==
    IF adapterKind # "creation_blueprint" THEN last
    ELSE IF i >= Len(steps) THEN None ELSE Some(steps[i + 1])

\* current_step(); adapters without the method get the engine's `lambda: None`
current_step(i, last) ==
    IF adapterKind = "curriculum_stream"
    THEN IF Len(steps) = 0 THEN None
         ELSE Some(steps[Max(0, Min(Len(steps) - 1, i - 1)) + 1])
    ELSE IF adapterKind = "creation_blueprint" THEN last
    ELSE None

\* ProcessedStream.step_features[s], an Optional record
ProcessedFeatures(s) ==
    IF adapterKind \in FeatureKinds /\ s \in DOMAIN obs_steps
    THEN Some([origin |-> "preprocessor", step |-> s])
    ELSE None

\* CurriculumStream._step_features[s], computed by the adapter for every step of _steps
AdapterFeatures(s) ==
    IF featuresEnabled /\ s \in DOMAIN obs_steps \cup DOMAIN true_steps
    THEN Some([origin |-> "adapter", step |-> s])
    ELSE None

\* get_step_features(step_id); adapters without the method get `lambda _: {}`
get_step_features(sid) ==
    IF adapterKind = "curriculum_stream"
    THEN IF ~featuresEnabled THEN None ELSE AdapterFeatures(sid)
    ELSE IF adapterKind = "creation_blueprint" THEN ProcessedFeatures(sid)
    ELSE None

-----------------------------------------------------------------------------
(* Signal heads: core/engine.py HEAD_REGISTRY and core/*_head.py *)

HEAD_REGISTRY == { "monte_carlo", "forecast", "regime_change" }

\* Engine.__init__: names that are not registered are skipped
RECURSIVE signal_heads_of(_)
signal_heads_of(names) ==
    IF names = << >> THEN << >>
    ELSE IF Head(names) \in HEAD_REGISTRY
         THEN << Head(names) >> \o signal_heads_of(Tail(names))
         ELSE signal_heads_of(Tail(names))

signal_heads == signal_heads_of(headNames)

\* keys of the dict returned by head.per_step
PerStepKeys(head) ==
    IF head = "monte_carlo" THEN { "q_mc_mean", "q_mc_std", "ted_mc_mean", "ted_mc_std" }
    ELSE IF head = "forecast" THEN { "step_type_inferred", "next_step_type_pred" }
    ELSE { "change_score" }

\* head.finalize_course() returns a non-empty dict
SummaryNonEmpty(head, calls) ==
    IF head = "regime_change" THEN TRUE ELSE calls > 0

\* keys of the signals dict built from the Signals object (engine.py 111-119)
BaseKeys == { "q", "ted", "s", "ted_delta", "spread", "locality_nodes", "continuity" }

\* dict.update
Update(d, e) == [k \in DOMAIN d \cup DOMAIN e |-> IF k \in DOMAIN e THEN e[k] ELSE d[k]]

EmptyDict == [k \in {} |-> 0]

Ev(name, t, head) == [ev |-> name, t |-> t, head |-> head]

-----------------------------------------------------------------------------
(* Engine.run: core/engine.py *)

IdentityCfg == [kind |-> "identity", max_edges |-> None, max_nodes |-> None,
                sticky_fraction |-> << 1, 2 >>]

\* the (core_config.heads, policy) pairs the engine is run with
EngineSetups ==
    { [heads |-> << >>, policy |-> IdentityCfg],
      [heads |-> << "monte_carlo", "forecast", "regime_change" >>,
       policy |-> [kind |-> "capacity", max_edges |-> Some(1), max_nodes |-> None,
                   sticky_fraction |-> << 1, 2 >>]],
      [heads |-> << "regime_change", "bogus", "forecast" >>, policy |-> IdentityCfg] }

PartialFrames(choice(_)) ==
    UNION { { f \in [K -> UNION { choice(s) : s \in K }] : \A s \in K : f[s] \in choice(s) }
            : K \in SUBSET StepIds }

InitDataset ==
    /\ adapterKind \in AdapterKinds
    /\ scramble \in (IF adapterKind \in UnionKinds THEN BOOLEAN ELSE { FALSE })
    /\ featuresEnabled \in (IF adapterKind = "curriculum_stream" THEN BOOLEAN ELSE { FALSE })
    /\ obs_steps \in PartialFrames(FrameChoices)
    /\ true_steps \in { [s \in K |-> TruthFrame(s)] : K \in TruthKeySets }
    /\ idx = 0
    /\ last_step = None
    /\ returned = << >>

\* Engine.__init__: an adapter (or reporter) name missing from REGISTRY raises
\* ValueError; the names of core_config["heads"] are only looked up with
\* HEAD_REGISTRY.get and never make the constructor fail.  The reporter of
\* the model is the registered "insight" reporter.
Engine_init(adapter, head_names) ==
    IF adapter \notin AdapterKinds THEN "ValueError" ELSE "start"


\* the components that the engine model does not drive, before any call
SignalIdle ==
    /\ sc_config = [compute_spread |-> FALSE, compute_locality |-> FALSE]
    /\ sc_prev_ted = None
    /\ sc_args = None
    /\ sc_out = None
    /\ sc_prev_out = None

McIdle ==
    /\ mc_config = [num_samples |-> 16, edge_dropout |-> << 1, 10 >>,
                    weight_jitter |-> << 1, 10 >>]
    /\ node_weights = << >>
    /\ mc_prev_edges_cache = None
    /\ mc_frame = None
    /\ mc_out = None

RegimeIdle ==
    /\ rg_config = [window |-> 3, threshold |-> << 1, 4 >>]
    /\ rg_history = << >>
    /\ rg_change_points = << >>
    /\ rg_out = None
    /\ rg_summary = None

InsightIdle ==
    /\ ir_series_q = << >>
    /\ ir_series_ted = << >>
    /\ ir_summary = None
    /\ ir_steps = 0
    /\ ir_kind = "insight"
    /\ ir_active = FALSE
    /\ ir_report = None

PreprocIdle ==
    /\ pp_kind = "curriculum"
    /\ pp_config = [ cap |-> 50, blank_stopped |-> TRUE ]
    /\ pp_raw = None
    /\ pp_out = None

ForecastIdle ==
    /\ fh_window_size = 3
    /\ fh_history = << >>
    /\ fh_step_types = << >>
    /\ fh_out = None

DynamicsIdle ==
    /\ cd_steps = << >>
    /\ cd_regime = None
    /\ cd_phases = None

LaterIdle == PreprocIdle /\ ForecastIdle /\ DynamicsIdle

InitLocals ==
    /\ step_index = 0
    /\ prev_pred = None
    /\ prev_cumulative = None
    /\ obs_step = {}
    /\ step_id = 0
    /\ step_features = None
    /\ cumulative = {}
    /\ signals = EmptyDict
    /\ headPos = 1
    /\ pred = None
    /\ recorded = << >>
    /\ head_summaries = {}
    /\ reporter_head_summaries = None
    /\ finishCalls = 0
    /\ trace = << >>
    /\ seenLog = << >>

Init ==
    /\ InitDataset
    /\ SignalIdle /\ McIdle /\ RegimeIdle /\ InsightIdle /\ LaterIdle
    /\ \E setup \in EngineSetups : headNames = setup.heads /\ polCfg = setup.policy
    /\ headCalls = [i \in 1 .. Len(signal_heads) |-> 0]
    /\ InitLocals
    /\ pc = Engine_init(adapterKind, headNames)

\* lines 72-90: reporter.start, the loop's locals, head.init_course
EngineStart ==
    /\ pc = "start"
    /\ pc' = "loop"
    /\ headCalls' = [i \in 1 .. Len(signal_heads) |-> 0]
    /\ trace' = Append(trace, Ev("start", step_index, ""))
    /\ UNCHANGED << componentVars, seenLog, configVars, adapterVars, returned, step_index, prev_pred, prev_cumulative,
                    obs_step, step_id, step_features, cumulative, signals, headPos, pred,
                    head_summaries, reporterVars >>

\* `current_step() or step_index`
StepIdOf(cs, t) == IF IsNone(cs) \/ cs[1] = 0 THEN t ELSE cs[1]

\* lines 92-101: has_more, next_obs, the step id, the features, the cumulative set
EngineNextObs ==
    /\ pc = "loop"
    /\ has_more(idx)
    /\ LET frame == NextObsFrame(idx)
           i2    == NextObsIdx(idx)
           last2 == NextObsLastStep(idx, last_step)
           sid   == StepIdOf(current_step(i2, last2), step_index)
       IN  /\ obs_step' = frame
           /\ idx' = i2
           /\ last_step' = last2
           /\ step_id' = sid
           /\ step_features' = get_step_features(sid)
           /\ cumulative' = OrElse(prev_cumulative, {}) \cup frame
           /\ returned' = Append(returned, [at |-> idx, frame |-> frame, after |-> i2,
                                            more |-> has_more(i2)])
    /\ trace' = Append(trace, Ev("next_obs", step_index, ""))
    /\ pc' = "compute"
    /\ UNCHANGED << componentVars, seenLog, configVars, step_index, prev_pred, prev_cumulative, signals, headPos,
                    pred, head_summaries, headCalls, reporterVars >>

\* lines 103-129: SignalComputer.compute and the signals dict
EngineCompute ==
    /\ pc = "compute"
    /\ signals' = [k \in BaseKeys |-> [by |-> "compute", t |-> step_index]]
    /\ seenLog' = << >>
    /\ headPos' = 1
    /\ trace' = Append(trace, Ev("compute", step_index, ""))
    /\ pc' = "heads"
    /\ UNCHANGED << componentVars, configVars, adapterVars, returned, step_index, prev_pred, prev_cumulative,
                    obs_step, step_id, step_features, cumulative, pred, head_summaries,
                    headCalls, reporterVars >>

\* EngineHead leaving the loop after the first head (a `break` or an early
\* return inside the head loop)
EngineHeadOnlyFirst ==
    /\ pc = "heads"
    /\ headPos <= Len(signal_heads)
    /\ LET head  == signal_heads[headPos]
           extra == [k \in PerStepKeys(head) |-> [by |-> head, t |-> step_index]]
       IN  /\ trace' = Append(trace, Ev("per_step", step_index, head))
           /\ seenLog' = Append(seenLog, [head |-> head, t |-> step_index, seen |-> signals])
           /\ signals' = Update(signals, extra)
    /\ headCalls' = [headCalls EXCEPT ![headPos] = @ + 1]
    /\ headPos' = Len(signal_heads) + 1
    /\ UNCHANGED << componentVars, configVars, adapterVars, returned, pc, step_index, prev_pred,
                    prev_cumulative, obs_step, step_id, step_features, cumulative, pred,
                    head_summaries, reporterVars >>

\* EngineHead without `signals.update(extra)`
EngineHeadNoMerge ==
    /\ pc = "heads"
    /\ headPos <= Len(signal_heads)
    /\ LET head  == signal_heads[headPos]
       IN  /\ trace' = Append(trace, Ev("per_step", step_index, head))
           /\ seenLog' = Append(seenLog, [head |-> head, t |-> step_index, seen |-> signals])
    /\ headCalls' = [headCalls EXCEPT ![headPos] = @ + 1]
    /\ headPos' = headPos + 1
    /\ UNCHANGED << componentVars, configVars, adapterVars, returned, pc, step_index, prev_pred,
                    prev_cumulative, obs_step, step_id, step_features, cumulative, pred,
                    head_summaries, reporterVars, signals >>

\* lines 131-134: one iteration of `for head in self.signal_heads`
EngineHead ==
    /\ pc = "heads"
    /\ headPos <= Len(signal_heads)
    /\ LET head  == signal_heads[headPos]
           extra == [k \in PerStepKeys(head) |-> [by |-> head, t |-> step_index]]
       IN  /\ trace' = Append(trace, Ev("per_step", step_index, head))
           /\ seenLog' = Append(seenLog, [head |-> head, t |-> step_index, seen |-> signals])
           /\ signals' = Update(signals, extra)
    /\ headCalls' = [headCalls EXCEPT ![headPos] = @ + 1]
    /\ headPos' = headPos + 1
    /\ UNCHANGED << componentVars, configVars, adapterVars, returned, pc, step_index, prev_pred,
                    prev_cumulative, obs_step, step_id, step_features, cumulative, pred,
                    head_summaries, reporterVars >>

\* lines 136-142: Policy.step
EnginePolicy ==
    /\ pc = "heads"
    /\ headPos > Len(signal_heads)
    /\ \E p \in PolicyStep(polCfg, prev_pred, obs_step) : pred' = Some(p)
    /\ trace' = Append(trace, Ev("policy", step_index, ""))
    /\ pc' = "record"
    /\ UNCHANGED << componentVars, seenLog, configVars, adapterVars, returned, step_index, prev_pred, prev_cumulative,
                    obs_step, step_id, step_features, cumulative, signals, headPos,
                    head_summaries, headCalls, reporterVars >>

\* EngineRecord without `step_index += 1`
EngineRecordNoIncrement ==
    /\ pc = "record"
    /\ recorded' = Append(recorded, [step |-> step_index, step_id |-> step_id,
                                     meta |-> step_features])
    /\ trace' = Append(trace, Ev("record", step_index, ""))
    /\ prev_pred' = pred
    /\ prev_cumulative' = Some(cumulative)
    /\ pc' = "loop"
    /\ UNCHANGED << componentVars, seenLog, configVars, adapterVars, returned, obs_step, step_id, step_features,
                    cumulative, signals, headPos, pred, head_summaries, headCalls,
                    reporter_head_summaries, finishCalls, step_index >>

\* lines 144-160: reporter.record and the loop's bookkeeping
EngineRecord ==
    /\ pc = "record"
    /\ recorded' = Append(recorded, [step |-> step_index, step_id |-> step_id,
                                     meta |-> step_features])
    /\ trace' = Append(trace, Ev("record", step_index, ""))
    /\ prev_pred' = pred
    /\ prev_cumulative' = Some(cumulative)
    /\ step_index' = step_index + 1
    /\ pc' = "loop"
    /\ UNCHANGED << componentVars, seenLog, configVars, adapterVars, returned, obs_step, step_id, step_features,
                    cumulative, signals, headPos, pred, head_summaries, headCalls,
                    reporter_head_summaries, finishCalls >>

\* line 92 when has_more() is false: leave the loop
EngineExhausted ==
    /\ pc = "loop"
    /\ ~has_more(idx)
    /\ pc' = "finalize"
    /\ headPos' = 1
    /\ UNCHANGED << componentVars, seenLog, configVars, adapterVars, returned, step_index, prev_pred, prev_cumulative,
                    obs_step, step_id, step_features, cumulative, signals, pred,
                    head_summaries, headCalls, reporterVars, trace >>

\* lines 163-166: one iteration of the finalize loop
EngineFinalizeHead ==
    /\ pc = "finalize"
    /\ headPos <= Len(signal_heads)
    /\ LET head == signal_heads[headPos] IN
       /\ head_summaries' = IF SummaryNonEmpty(head, headCalls[headPos])
                            THEN head_summaries \cup { head } ELSE head_summaries
       /\ trace' = Append(trace, Ev("finalize", step_index, head))
    /\ headPos' = headPos + 1
    /\ UNCHANGED << componentVars, seenLog, configVars, adapterVars, returned, pc, step_index, prev_pred,
                    prev_cumulative, obs_step, step_id, step_features, cumulative, signals,
                    pred, headCalls, reporterVars >>

\* lines 168-171: attach the summaries, reporter.finish
EngineFinish ==
    /\ pc = "finalize"
    /\ headPos > Len(signal_heads)
    /\ reporter_head_summaries' = IF head_summaries # {} THEN Some(head_summaries)
                                  ELSE reporter_head_summaries
    /\ finishCalls' = finishCalls + 1
    /\ trace' = Append(trace, Ev("finish", step_index, ""))
    /\ pc' = "done"
    /\ UNCHANGED << componentVars, seenLog, configVars, adapterVars, returned, step_index, prev_pred, prev_cumulative,
                    obs_step, step_id, step_features, cumulative, signals, headPos, pred,
                    head_summaries, headCalls, recorded >>

Next ==
    \/ EngineStart
    \/ EngineNextObs
    \/ EngineCompute
    \/ EngineHead
    \/ EnginePolicy
    \/ EngineRecord
    \/ EngineExhausted
    \/ EngineFinalizeHead
    \/ EngineFinish

Spec == Init /\ [][Next]_vars

\* Engine.run is one synchronous call: it keeps running until it returns
FairSpec == Init /\ [][Next]_vars /\ WF_vars(Next)

-----------------------------------------------------------------------------
(* The stream adapter driven directly by a caller: next_obs() called any
   number of times, also after the cursor reached the end *)

MaxCalls == 5

InitIdle ==
    /\ headNames = << >>
    /\ polCfg = IdentityCfg
    /\ headCalls = << >>
    /\ InitLocals

AdapterInit ==
    /\ InitDataset
    /\ SignalIdle /\ McIdle /\ RegimeIdle /\ InsightIdle /\ LaterIdle
    /\ InitIdle
    /\ pc = "adapter"

AdapterNextObs ==
    /\ pc = "adapter"
    /\ Len(returned) < MaxCalls
    /\ obs_step' = NextObsFrame(idx)
    /\ idx' = NextObsIdx(idx)
    /\ last_step' = NextObsLastStep(idx, last_step)
    /\ returned' = Append(returned, [at |-> idx, frame |-> NextObsFrame(idx),
                                     after |-> NextObsIdx(idx),
                                     more |-> has_more(NextObsIdx(idx))])
    /\ UNCHANGED << componentVars, seenLog, configVars, pc, step_index, prev_pred, prev_cumulative, step_id,
                    step_features, cumulative, signals, headPos, pred, head_summaries,
                    headCalls, reporterVars, trace >>

AdapterNext == AdapterNextObs

AdapterSpec == AdapterInit /\ [][AdapterNext]_vars

-----------------------------------------------------------------------------
(* The policy driven directly: Policy.step called on any sequence of
   observations, each call given the previous call's result as prev_pred *)

MaxEdgesCap == 3
MaxNodesCap == 2
PolMaxNode == 3

\* a path 0-1-2-..., and the chord (0,2) that closes a triangle
PolEdges == { << u, u + 1 >> : u \in 0 .. PolMaxNode - 1 } \cup { << 0, 2 >> }

StickyFractions == { << 0, 1 >>, << 1, 2 >>, << 1, 1 >>, << 3, 2 >> }

\* PolicyConfig is a plain dataclass: any max_edges, also a negative one, and
\* any sticky_fraction, also one above 1, can be handed to the constructor
PolicyConfigs ==
    { IdentityCfg } \cup
    [ kind : { "capacity" },
      max_edges : { None } \cup { Some(n) : n \in (0 - 1) .. MaxEdgesCap },
      max_nodes : { None } \cup { Some(n) : n \in 1 .. MaxNodesCap },
      sticky_fraction : StickyFractions ]

\* Policy.__init__: `self.config = config or PolicyConfig()`; neither the
\* dataclass nor the constructor inspects a field, the config is kept as given
Policy_init(config) == config

PolicyInit ==
    /\ adapterKind = "creation_blueprint"
    /\ scramble = FALSE
    /\ featuresEnabled = FALSE
    /\ obs_steps = << >>
    /\ true_steps = << >>
    /\ idx = 0
    /\ last_step = None
    /\ returned = << >>
    /\ headNames = << >>
    /\ headCalls = << >>
    /\ InitLocals
    /\ SignalIdle /\ McIdle /\ RegimeIdle /\ InsightIdle /\ LaterIdle
    /\ polCfg \in { Policy_init(config) : config \in PolicyConfigs }
    /\ pc = "policy"

\* one call of self.policy.step(prev_pred=prev_pred, obs_t=obs_step), then
\* `prev_pred = pred` as the caller does (engine.py 136-152)
PolicyCall ==
    /\ pc = "policy"
    /\ \E obs_t \in SUBSET PolEdges :
         /\ obs_step' = obs_t
         /\ prev_pred' = pred
         /\ \E p \in PolicyStep(polCfg, pred, obs_t) : pred' = Some(p)
    /\ UNCHANGED << componentVars, seenLog, configVars, adapterVars, returned, pc, step_index, prev_cumulative,
                    step_id, step_features, cumulative, signals, headPos, head_summaries,
                    headCalls, reporterVars, trace >>

PolicyNext == PolicyCall

PolicySpec == PolicyInit /\ [][PolicyNext]_vars

-----------------------------------------------------------------------------
(* Numbers.  A Python float is modelled by the exact rational it stands
   for, << n, d >> with d > 0 in lowest terms; << 1, 0 >> is inf and
   << 0, 0 >> is nan.  Frames are small, so no quotient of the model falls
   on a rounding tie that binary floating point would decide differently. *)

RECURSIVE GCD(_, _)
GCD(a, b) == IF b = 0 THEN a ELSE GCD(b, a % b)

Abs(n) == IF n < 0 THEN 0 - n ELSE n

Rat(n, d) == LET g == GCD(Abs(n), d) IN IF g = 0 THEN << n, d >> ELSE << n \div g, d \div g >>

NaN == << 0, 0 >>
Inf == << 1, 0 >>
Zero == << 0, 1 >>
One == << 1, 1 >>

IsFinite(x) == x[2] # 0
IsNaN(x) == x = NaN

\* a < b as Python compares floats (every comparison with nan is False)
Lt(a, b) == a[1] * b[2] < b[1] * a[2]

\* min(a, b) and max(a, b) of Python: the first argument wins unless the
\* second is strictly smaller (larger)
PyMin(a, b) == IF Lt(b, a) THEN b ELSE a
PyMax(a, b) == IF Lt(a, b) THEN b ELSE a

\* a - b
Sub(a, b) ==
    IF IsNaN(a) \/ IsNaN(b) THEN NaN
    ELSE IF IsFinite(a) /\ IsFinite(b) THEN Rat(a[1] * b[2] - b[1] * a[2], a[2] * b[2])
    ELSE IF ~IsFinite(a) /\ ~IsFinite(b) THEN (IF a = b THEN NaN ELSE a)
    ELSE IF ~IsFinite(a) THEN a
    ELSE << 0 - b[1], 0 >>

\* a / b for finite a and b > 0
Div(a, b) == Rat(a[1] * b[2], a[2] * b[1])

\* the integer nearest to n / d (d > 0), a tie going to the even one
RoundHalfEven(n, d) ==
    LET q == (n - (n % d)) \div d
        r == n % d
    IN  IF 2 * r < d THEN q
        ELSE IF 2 * r > d THEN q + 1
        ELSE IF q % 2 = 0 THEN q ELSE q + 1

\* round(x, 3); inf and nan are returned unchanged
Round3(x) == IF ~IsFinite(x) THEN x ELSE Rat(RoundHalfEven(1000 * x[1], x[2]), 1000)

Milli(k) == Rat(k, 1000)

-----------------------------------------------------------------------------
(* core/signals.py: DefaultSignalComputer *)

NodesOf(edges) == { e[1] : e \in edges } \cup { e[2] : e \in edges }

\* _fallback_quality(obs, step_features)
fallback_quality(obs, sf) ==
    IF obs = {} THEN Zero
    ELSE IF /\ ~IsNone(sf.weighted_node_mass) /\ ~IsNone(sf.unique_node_count)
            /\ Lt(Zero, sf.unique_node_count[1])
         THEN LET unique == sf.unique_node_count[1]
                  denom  == PyMax(One, Rat(2 * unique[1], unique[2]))
              IN  PyMin(One, Div(sf.weighted_node_mass[1], denom))
         ELSE PyMin(One, Rat(Cardinality(NodesOf(obs)), 25))

\* _fallback_ted returning the overlap intersection / union in place of
\* 1 - intersection / union
fallback_ted_overlap(obs, prev_obs) ==
    IF IsNone(prev_obs) THEN Zero
    ELSE IF obs = {} /\ prev_obs[1] = {} THEN Zero
    ELSE Rat(Cardinality(obs \cap prev_obs[1]), Cardinality(obs \cup prev_obs[1]))

\* _fallback_ted(obs, prev_obs)
fallback_ted(obs, prev_obs) ==
    IF IsNone(prev_obs) THEN Zero
    ELSE IF obs = {} /\ prev_obs[1] = {} THEN Zero
    ELSE LET intersection == Cardinality(obs \cap prev_obs[1])
             union        == Cardinality(obs \cup prev_obs[1])
         IN  IF union = 0 THEN Zero
             ELSE PyMax(Zero, PyMin(One, Sub(One, Rat(intersection, union))))

\* the nodes joined to S by a path of edges taken as undirected
RECURSIVE Grow(_, _)
Grow(S, edges) ==
    LET T == S \cup { e[2] : e \in { f \in edges : f[1] \in S } }
                \cup { e[1] : e \in { f \in edges : f[2] \in S } }
    IN  IF T = S THEN S ELSE Grow(T, edges)

\* the loop `for node in adj` of _connected_components: a node not yet visited
\* starts a component, which the inner loop fills with what it reaches
RECURSIVE components_from(_, _, _)
components_from(nodes, edges, visited) ==
    IF nodes \ visited = {} THEN {}
    ELSE LET node == CHOOSE n \in nodes \ visited : TRUE
             component == Grow({node}, edges)
         IN  { component } \cup components_from(nodes, edges, visited \cup component)

\* _connected_components(edges)
connected_components(edges) == components_from(NodesOf(edges), edges, {})

\* the least size of a component beside which a one-node component makes the
\* normalized entropy less than 0.0005
SkewSize == 32896

\* round(entropy / log(k), 3) for component sizes that are not all equal:
\* the values of the frames the model draws
NormalizedEntropy(sizes) ==
    CASE sizes = { 2, 3 } -> Milli(971)
      [] sizes = { 1, SkewSize } -> Zero

\* _compute_spread without the `len(components) == 1` test
compute_spread_entropy_only(components) ==
    IF components = {} THEN Zero
    ELSE LET sizes == { Cardinality(c) : c \in components }
         IN  IF Cardinality(sizes) = 1 THEN One ELSE NormalizedEntropy(sizes)

\* _compute_spread(components)
compute_spread(components) ==
    IF components = {} \/ Cardinality(components) = 1 THEN Zero
    ELSE LET sizes == { Cardinality(c) : c \in components }
         IN  IF Cardinality(sizes) = 1 THEN One ELSE NormalizedEntropy(sizes)

DegreeIn(edges, n) ==
    Cardinality({ e \in edges : e[1] = n }) + Cardinality({ e \in edges : e[2] = n })

\* sorted(nodes, key=deltas, reverse=True): the sort is stable and the set of
\* small node ids is iterated in ascending order
RECURSIVE OrderByDelta(_, _, _)
OrderByDelta(nodes, cur, prev) ==
    IF nodes = {} THEN << >>
    ELSE LET delta(n) == Abs(DegreeIn(cur, n) - DegreeIn(prev, n))
             first == CHOOSE n \in nodes : \A m \in nodes :
                          delta(m) < delta(n) \/ (delta(m) = delta(n) /\ n <= m)
         IN  << first >> \o OrderByDelta(nodes \ {first}, cur, prev)

\* _locality_nodes(obs_t, prev_obs, top_k=5)
locality_nodes(obs_t, prev_obs) ==
    IF IsNone(prev_obs) THEN << >>
    ELSE LET ordered == OrderByDelta(NodesOf(obs_t) \cup NodesOf(prev_obs[1]), obs_t, prev_obs[1])
         IN  SubSeq(ordered, 1, Min(5, Len(ordered)))

\* `isinstance(ted_feature, (int, float)) and not math.isnan(float(ted_feature))`
ted_feature_accepted(ted_feature) == ~IsNone(ted_feature) /\ ~IsNaN(ted_feature[1])

\* max(0.0, min(1.0, ted))
derived_stability_of_ted(ted) == PyMax(Zero, PyMin(One, ted))

\* max(0.0, min(1.0, 1.0 - ted))
derived_stability(ted) == PyMax(Zero, PyMin(One, Sub(One, ted)))

\* DefaultSignalComputer.compute: the Signals returned and the new _prev_ted
compute(config, prev_ted, obs_t, prev_obs, sf) ==
    LET q == IF ~IsNone(sf.quality) THEN sf.quality[1] ELSE fallback_quality(obs_t, sf)
        ted == IF ted_feature_accepted(sf.ted) THEN sf.ted[1]
               ELSE fallback_ted(obs_t, prev_obs)
        stability == IF ~IsNone(sf.stability) THEN sf.stability[1]
                     ELSE derived_stability(ted)
        spread == IF config.compute_spread
                  THEN Some(compute_spread(connected_components(obs_t))) ELSE None
        locality == IF config.compute_locality
                    THEN Some(locality_nodes(obs_t, prev_obs)) ELSE None
        ted_delta == IF IsNone(prev_ted) THEN None ELSE Some(Round3(Sub(ted, prev_ted[1])))
    IN  [ signals |-> [ q |-> Round3(q), ted |-> Round3(ted),
                        stability |-> Round3(stability), ted_delta |-> ted_delta,
                        spread |-> spread, locality_nodes |-> locality ],
          prev_ted |-> Some(ted) ]

\* the frames handed to compute
SigEdges == { << 0, 1 >>, << 1, 2 >>, << 3, 4 >> }
SigFrames == SUBSET SigEdges

\* the prev_obs arguments: absent, empty, one edge, every edge
SigPrevFrames == { None, Some({}), Some({ << 0, 1 >> }), Some(SigEdges) }

NoFeatures == [ quality |-> None, ted |-> None, stability |-> None,
                weighted_node_mass |-> None, unique_node_count |-> None ]

\* step_features dicts: empty; the preprocessor's quality/ted/stability;
\* ted = nan; ted = inf; quality = 1.5; node mass and count
FeatureMaps ==
    { NoFeatures,
      [ NoFeatures EXCEPT !.quality = Some(Rat(4, 5)), !.ted = Some(Rat(1, 10)),
                          !.stability = Some(Rat(9, 10)) ],
      [ NoFeatures EXCEPT !.ted = Some(NaN) ],
      [ NoFeatures EXCEPT !.ted = Some(Inf) ],
      [ NoFeatures EXCEPT !.quality = Some(Rat(3, 2)) ],
      [ NoFeatures EXCEPT !.weighted_node_mass = Some(Rat(3, 1)),
                          !.unique_node_count = Some(Rat(2, 1)) ] }

SignalConfigs == { [compute_spread |-> FALSE, compute_locality |-> FALSE],
                   [compute_spread |-> TRUE, compute_locality |-> TRUE] }

\* no dataset, no engine: the state of the parts a direct driver leaves alone
NoDataset ==
    /\ adapterKind = "creation_blueprint"
    /\ scramble = FALSE
    /\ featuresEnabled = FALSE
    /\ obs_steps = << >>
    /\ true_steps = << >>
    /\ idx = 0
    /\ last_step = None
    /\ returned = << >>

\* DefaultSignalComputer(signal_config): _prev_ted = None
SignalInit ==
    /\ NoDataset
    /\ InitIdle
    /\ McIdle /\ RegimeIdle /\ InsightIdle /\ LaterIdle
    /\ sc_config \in SignalConfigs
    /\ sc_prev_ted = None
    /\ sc_args = None
    /\ sc_out = None
    /\ sc_prev_out = None
    /\ pc = "signals"

\* one call of compute on any frames and step_features
ComputeCall ==
    /\ pc = "signals"
    /\ \E obs_t \in SigFrames, prev_obs \in SigPrevFrames, sf \in FeatureMaps :
         LET r == compute(sc_config, sc_prev_ted, obs_t, prev_obs, sf) IN
         /\ sc_args' = Some([obs_t |-> obs_t, prev_obs |-> prev_obs, step_features |-> sf])
         /\ sc_out' = Some(r.signals)
         /\ sc_prev_ted' = r.prev_ted
         /\ sc_prev_out' = IF IsNone(sc_out) THEN None ELSE Some(sc_out[1].ted)
    /\ UNCHANGED << laterVars, sc_config, mcVars, regimeVars, insightVars, seenLog, configVars,
                    adapterVars, returned, pc, step_index, prev_pred, prev_cumulative,
                    obs_step, step_id, step_features, cumulative, signals, headPos, pred,
                    head_summaries, headCalls, reporterVars, trace >>

SignalNext == ComputeCall

\* a self-loop beside a star of SkewSize nodes
SkewedFrame == { << 0, 0 >> } \cup { << 1, k >> : k \in 2 .. SkewSize }

\* DefaultSignalComputer(SignalConfig(compute_spread=True))
SpreadInit ==
    /\ NoDataset
    /\ InitIdle
    /\ McIdle /\ RegimeIdle /\ InsightIdle /\ LaterIdle
    /\ sc_config = [compute_spread |-> TRUE, compute_locality |-> FALSE]
    /\ sc_prev_ted = None
    /\ sc_args = None
    /\ sc_out = None
    /\ sc_prev_out = None
    /\ pc = "spread"

\* compute on the skewed frame, the first frame a fresh computer is handed
SpreadComputeSkewed ==
    /\ pc = "spread"
    /\ IsNone(sc_args)
    /\ LET r == compute(sc_config, sc_prev_ted, SkewedFrame, None, NoFeatures) IN
         /\ sc_args' = Some([obs_t |-> SkewedFrame, prev_obs |-> None,
                             step_features |-> NoFeatures])
         /\ sc_out' = Some(r.signals)
         /\ sc_prev_ted' = r.prev_ted
         /\ sc_prev_out' = None
    /\ UNCHANGED << laterVars, sc_config, mcVars, regimeVars, insightVars, seenLog, configVars,
                    adapterVars, returned, pc, step_index, prev_pred, prev_cumulative,
                    obs_step, step_id, step_features, cumulative, signals, headPos, pred,
                    head_summaries, headCalls, reporterVars, trace >>

\* one call of compute on a small frame
SpreadCompute ==
    /\ pc = "spread"
    /\ \E obs_t \in SigFrames, prev_obs \in { None, Some({}), Some({ << 0, 1 >> }) },
          sf \in { NoFeatures, [ NoFeatures EXCEPT !.ted = Some(Rat(1, 10)) ] } :
         LET r == compute(sc_config, sc_prev_ted, obs_t, prev_obs, sf) IN
         /\ sc_args' = Some([obs_t |-> obs_t, prev_obs |-> prev_obs, step_features |-> sf])
         /\ sc_out' = Some(r.signals)
         /\ sc_prev_ted' = r.prev_ted
         /\ sc_prev_out' = IF IsNone(sc_out) THEN None ELSE Some(sc_out[1].ted)
    /\ UNCHANGED << laterVars, sc_config, mcVars, regimeVars, insightVars, seenLog, configVars,
                    adapterVars, returned, pc, step_index, prev_pred, prev_cumulative,
                    obs_step, step_id, step_features, cumulative, signals, headPos, pred,
                    head_summaries, headCalls, reporterVars, trace >>

SpreadNext == SpreadComputeSkewed \/ SpreadCompute

SpreadSpec == SpreadInit /\ [][SpreadNext]_vars

SignalSpec == SignalInit /\ [][SignalNext]_vars

-----------------------------------------------------------------------------
(* core/mc_head.py: MonteCarloHead with num_samples = 1, fed by the loop of
   Engine.run (engine.py 92-130) *)

MaxMcSteps == 3

\* total += weights.get(nid, 1.0) over the nodes seen
RECURSIVE SumWeights(_, _)
SumWeights(nodes, weights) ==
    IF nodes = {} THEN Zero
    ELSE LET n == CHOOSE m \in nodes : TRUE
             w == IF n \in DOMAIN weights THEN weights[n] ELSE One
         IN  Sub(SumWeights(nodes \ {n}, weights), << 0 - w[1], w[2] >>)

\* MonteCarloHead._compute_q(edges, weights)
mc_compute_q(edges, weights) ==
    IF edges = {} THEN Zero
    ELSE LET seen  == NodesOf(edges)
             denom == PyMax(One, Rat(2 * Cardinality(seen), 1))
         IN  PyMin(One, Div(SumWeights(seen, weights), denom))

\* MonteCarloHead._compute_ted(prev_edges, curr_edges)
mc_compute_ted(prev_edges, curr_edges) ==
    IF prev_edges = {} /\ curr_edges = {} THEN Zero
    ELSE LET intersection == Cardinality(prev_edges \cap curr_edges)
             union        == Cardinality(prev_edges \cup curr_edges)
         IN  IF union = 0 THEN Zero
             ELSE PyMax(Zero, PyMin(One, Sub(One, Rat(intersection, union))))

\* MonteCarloHead._drop_edges(edges, rate): the sets the random draws can keep
drop_edges(edges, rate) ==
    IF edges = {} \/ ~Lt(Zero, rate) THEN { edges }
    ELSE (SUBSET edges) \ { {} }

\* MonteCarloHead._stats(values) of a single sample
stats(values) == [ mean |-> values[1], std |-> Zero ]

\* `frame.prev_cumulative or self._prev_edges_cache or set()`
mc_prev_edges(frame, cache) ==
    IF ~IsNone(frame.prev_cumulative) /\ frame.prev_cumulative[1] # {}
    THEN frame.prev_cumulative[1]
    ELSE IF ~IsNone(cache) /\ cache[1] # {} THEN cache[1] ELSE {}

\* MonteCarloHead.per_step: the dicts it can return (num_samples = 1,
\* weight_jitter = 0)
mc_per_step(config, cache, frame) ==
    LET prev_edges == mc_prev_edges(frame, cache)
        curr_edges == frame.cumulative_edges
    IN  { LET q   == stats(<< mc_compute_q(sampled_curr, frame.node_weights) >>)
              ted == stats(<< mc_compute_ted(sampled_prev, sampled_curr) >>)
          IN  [ q_mc_mean |-> q.mean, q_mc_std |-> q.std,
                ted_mc_mean |-> ted.mean, ted_mc_std |-> ted.std ]
          : sampled_prev \in drop_edges(prev_edges, config.edge_dropout),
            sampled_curr \in drop_edges(curr_edges, config.edge_dropout) }

McConfigs == [ num_samples : { 1 }, edge_dropout : { Zero, Rat(1, 10) },
               weight_jitter : { Zero } ]

\* stream.node_weights: absent, or 0.5 for every node
NodeWeightMaps == { << >>, [n \in NodesOf(SigEdges) |-> Rat(1, 2)] }

McInit ==
    /\ NoDataset
    /\ InitIdle
    /\ SignalIdle /\ RegimeIdle /\ InsightIdle /\ LaterIdle
    /\ mc_config \in McConfigs
    /\ node_weights \in NodeWeightMaps
    /\ mc_prev_edges_cache = None
    /\ mc_frame = None
    /\ mc_out = None
    /\ pc = "mc"

\* one turn of the loop of Engine.run with the head: the cumulative set, the
\* StepFrame (an empty prev_cumulative is handed over as None), per_step
McStep ==
    /\ pc = "mc"
    /\ step_index < MaxMcSteps
    /\ \E obs \in SigFrames, sf \in { NoFeatures,
                                     [ NoFeatures EXCEPT !.weighted_node_mass = Some(Rat(3, 1)),
                                                         !.unique_node_count = Some(Rat(2, 1)) ] } :
         LET prevc == IF step_index = 0 THEN None ELSE Some(cumulative)
             cum   == OrElse(prevc, {}) \cup obs
             frame == [ t |-> step_index, cumulative_edges |-> cum,
                        prev_cumulative |-> IF ~IsNone(prevc) /\ prevc[1] # {}
                                            THEN prevc ELSE None,
                        node_weights |-> node_weights, step_features |-> sf ]
         IN  /\ obs_step' = obs
             /\ prev_cumulative' = prevc
             /\ cumulative' = cum
             /\ mc_frame' = Some(frame)
             /\ \E r \in mc_per_step(mc_config, mc_prev_edges_cache, frame) :
                    mc_out' = Some(r)
             /\ mc_prev_edges_cache' = Some(cum)
    /\ step_index' = step_index + 1
    /\ UNCHANGED << laterVars, mc_config, node_weights, signalVars, regimeVars, insightVars, seenLog,
                    configVars, adapterVars, returned, pc, prev_pred, step_id,
                    step_features, signals, headPos, pred, head_summaries, headCalls,
                    reporterVars, trace >>

McNext == McStep

McSpec == McInit /\ [][McNext]_vars

-----------------------------------------------------------------------------
(* core/regime_head.py: RegimeChangeHead, per_step called once per step *)

MaxWindow == 2
MaxRegimeSteps == 4

Neg(a) == << 0 - a[1], a[2] >>
Add(a, b) == Sub(a, Neg(b))
Mul(a, b) == Rat(a[1] * b[1], a[2] * b[2])

RegimeKeys == << "q", "ted", "concept_fraction", "assessment_fraction", "reading_fraction" >>

\* sums[key] += entry.get(key, 0.0) over the window
RECURSIVE WindowSum(_, _)
WindowSum(window, key) ==
    IF window = << >> THEN Zero ELSE Add(Head(window)[key], WindowSum(Tail(window), key))

\* _average(window), for a window that is not empty
average(window) ==
    [ i \in 1 .. Len(RegimeKeys) |->
        Div(WindowSum(window, RegimeKeys[i]), Rat(Len(window), 1)) ]

RECURSIVE SumSquares(_, _, _)
SumSquares(a, b, i) ==
    IF i = 0 THEN Zero
    ELSE Add(Mul(Sub(a[i], b[i]), Sub(a[i], b[i])), SumSquares(a, b, i - 1))

\* _l2_distance(a, b), squared: the square root is not taken in the model
l2_distance_sq(a, b) == SumSquares(a, b, Len(RegimeKeys))

\* history[lo:hi] as Python slices a list
Slice(history, lo, hi) ==
    LET n    == Len(history)
        from == IF lo < 0 THEN Max(lo + n, 0) ELSE Min(lo, n)
        to   == IF hi < 0 THEN Max(hi + n, 0) ELSE Min(hi, n)
    IN  IF from < to THEN SubSeq(history, from + 1, to) ELSE << >>

\* center_idx = len(self._history) - 1 - k
center_idx(n, k) == n - 1 - k

\* next_window = self._history[center_idx : center_idx + k]
next_window_from_center(history, center, k) == Slice(history, center, center + k)

\* next_window = self._history[center_idx + 1 : center_idx + 1 + k]
next_window(history, center, k) == Slice(history, center + 1, center + 1 + k)

\* the body of per_step once the feature vector is appended: h is the
\* history, next_w the window after the center and index the value appended
\* to the change points on a hit
RegimeEvaluate(config, h, change_points, index, next_w) ==
    LET k == config.window
        n == Len(h)
        quiet == [ history |-> h, change_points |-> change_points,
                   raised |-> FALSE, change_score_sq |-> Zero ]
    IN  IF n >= 2 * k + 1
        THEN LET center == center_idx(n, k)
                 prev_w == Slice(h, center - k, center)
             IN  IF Len(prev_w) = k /\ Len(next_w) = k
                 THEN IF k = 0
                      THEN [ quiet EXCEPT !.raised = TRUE ]
                      ELSE LET score_sq == l2_distance_sq(average(prev_w), average(next_w))
                               hit == ~Lt(score_sq, Mul(config.threshold, config.threshold))
                           IN  [ history |-> h,
                                 change_points |-> IF hit THEN Append(change_points, index)
                                                   ELSE change_points,
                                 raised |-> FALSE, change_score_sq |-> score_sq ]
                 ELSE quiet
        ELSE quiet

\* per_step appending the index of the current step instead of the center
regime_per_step_current_idx(config, history, change_points, vec) ==
    LET h == Append(history, vec)
        center == center_idx(Len(h), config.window)
    IN  RegimeEvaluate(config, h, change_points, Len(h) - 1,
                       next_window(h, center, config.window))

\* RegimeChangeHead.per_step; raised: _average divides by len(window) = 0
regime_per_step(config, history, change_points, vec) ==
    LET h == Append(history, vec)
        center == center_idx(Len(h), config.window)
    IN  RegimeEvaluate(config, h, change_points, center,
                       next_window(h, center, config.window))

\* RegimeChangeHead.finalize_course
regime_finalize_course(change_points) ==
    [ change_points |-> change_points, num_change_points |-> Len(change_points) ]

\* (q, ted, concept_fraction) with the other fractions constant
Vec(q, ted, concept) ==
    [ q |-> Milli(q), ted |-> Milli(ted), concept_fraction |-> Milli(concept),
      assessment_fraction |-> Milli(100), reading_fraction |-> Milli(100) ]

LowVec == Vec(300, 100, 400)
HighVec == Vec(900, 400, 800)

\* the feature vectors fed to the head: two regimes, a small drift, and two
\* vectors at a distance of exactly 0.25
RegimeVectors == { LowVec, HighVec, Vec(310, 100, 400), Vec(250, 100, 400),
                   Vec(500, 100, 400) }

RegimeConfigs == [ window : 0 .. MaxWindow, threshold : { Milli(50), Milli(250) } ]

RegimeInit ==
    /\ NoDataset
    /\ InitIdle
    /\ SignalIdle /\ McIdle /\ InsightIdle /\ LaterIdle
    /\ rg_config \in RegimeConfigs
    /\ rg_history = << >>
    /\ rg_change_points = << >>
    /\ rg_out = None
    /\ rg_summary = None
    /\ pc = "regime"

\* the last per_step call ended in an exception
RegimeRaised == IF IsNone(rg_out) THEN FALSE ELSE rg_out[1].raised

\* head.per_step on the next step of the course
RegimePerStep ==
    /\ pc = "regime"
    /\ IsNone(rg_summary)
    /\ ~RegimeRaised
    /\ Len(rg_history) < MaxRegimeSteps
    /\ \E vec \in RegimeVectors :
         LET r == regime_per_step(rg_config, rg_history, rg_change_points, vec) IN
         /\ rg_history' = r.history
         /\ rg_change_points' = r.change_points
         /\ rg_out' = Some([ raised |-> r.raised, change_score_sq |-> r.change_score_sq ])
    /\ UNCHANGED << laterVars, rg_config, rg_summary, signalVars, mcVars, insightVars, seenLog,
                    configVars, adapterVars, returned, pc, step_index, prev_pred,
                    prev_cumulative, obs_step, step_id, step_features, cumulative,
                    signals, headPos, pred, head_summaries, headCalls, reporterVars,
                    trace >>

\* head.finalize_course() at the end of the course
RegimeFinalize ==
    /\ pc = "regime"
    /\ IsNone(rg_summary)
    /\ ~RegimeRaised
    /\ rg_summary' = Some(regime_finalize_course(rg_change_points))
    /\ UNCHANGED << laterVars, rg_config, rg_history, rg_change_points, rg_out, signalVars, mcVars,
                    insightVars, seenLog, configVars, adapterVars, returned, pc,
                    step_index, prev_pred, prev_cumulative, obs_step, step_id,
                    step_features, cumulative, signals, headPos, pred, head_summaries,
                    headCalls, reporterVars, trace >>

RegimeNext == RegimePerStep \/ RegimeFinalize

RegimeSpec == RegimeInit /\ [][RegimeNext]_vars

-----------------------------------------------------------------------------
(* reporters/insight.py: InsightReporter, record and finish called directly *)

MaxRecords == 3

RECURSIVE SumSeq(_)
SumSeq(series) == IF series = << >> THEN Zero ELSE Add(Head(series), SumSeq(Tail(series)))

\* round(sum(series) / len(series), 3) if series else None
rounded_mean(series) ==
    IF series = << >> THEN None
    ELSE Some(Round3(Div(SumSeq(series), Rat(Len(series), 1))))

\* `aggregates.get(key) and ...`: None and 0.0 are both falsy
truthy(value) == ~IsNone(value) /\ value[1] # Zero

\* InsightReporter.record: q and ted are appended to their series when numbers
insight_record(series, value) == IF IsNone(value) THEN series ELSE Append(series, value[1])

\* the recommendations computed by InsightReporter.finish
recommendations(avg_q, avg_ted) ==
    LET drift   == IF truthy(avg_ted) /\ Lt(Milli(600), avg_ted[1])
                   THEN << "high_drift" >> ELSE << >>
        lagging == IF truthy(avg_q) /\ Lt(avg_q[1], Milli(400))
                   THEN << "quality_lagging" >> ELSE << >>
        recs    == drift \o lagging
    IN  IF recs = << >> THEN << "nominal" >> ELSE recs

\* the q and ted signals handed to record (None: not a number)
RecordedQ == { None, Some(Zero), Some(Milli(400)), Some(Milli(900)) }
RecordedTed == { None, Some(Zero), Some(Milli(600)), Some(One) }

\* the reporter classes built on InsightReporter, by registered name
InsightKinds == { "insight", "curriculum_insight", "conversation_insight" }

\* meta["domain"] handed to start
MetaDomains == { "curriculum", "conversation" }

\* the keys of self.summary, set by InsightReporter.__init__ and never extended
\* by finish: no method of the reporters calls _extend_summary
summary_keys == { "domain", "run_meta", "steps", "aggregates", "recommendations" }

\* ConversationInsightReporter.record and finish return at once unless the
\* reporter was started on a conversation stream
records(kind, active) == kind # "conversation_insight" \/ active

\* ConversationInsightReporter.finish: `not self._active_domain or not
\* self._adjacency_ratios` returns before super().finish()
finishes(kind, active, n_steps) ==
    kind # "conversation_insight" \/ (active /\ n_steps > 0)

\* InsightReporter.__init__ (and the subclasses' __init__)
InsightInit ==
    /\ NoDataset
    /\ InitIdle
    /\ SignalIdle /\ McIdle /\ RegimeIdle /\ LaterIdle
    /\ ir_series_q = << >>
    /\ ir_series_ted = << >>
    /\ ir_summary = None
    /\ ir_steps = 0
    /\ ir_kind \in InsightKinds
    /\ ir_active = FALSE
    /\ ir_report = None
    /\ pc = "insight_new"

\* reporter.start(meta, config)
InsightStart ==
    /\ pc = "insight_new"
    /\ \E domain \in MetaDomains :
         ir_active' = (ir_kind = "conversation_insight" /\ domain = "conversation")
    /\ pc' = "insight"
    /\ UNCHANGED << laterVars, ir_series_q, ir_series_ted, ir_summary, ir_steps, ir_kind, ir_report,
                    signalVars, mcVars, regimeVars, seenLog, configVars,
                    adapterVars, returned, step_index, prev_pred, prev_cumulative,
                    obs_step, step_id, step_features, cumulative, signals, headPos,
                    pred, head_summaries, headCalls, reporterVars, trace >>

\* reporter.record(step, signals, meta, pred)
InsightRecord ==
    /\ pc = "insight"
    /\ IsNone(ir_report)
    /\ ir_steps < MaxRecords
    /\ \E q \in RecordedQ, ted \in RecordedTed :
         IF records(ir_kind, ir_active)
         THEN /\ ir_series_q' = insight_record(ir_series_q, q)
              /\ ir_series_ted' = insight_record(ir_series_ted, ted)
              /\ ir_steps' = ir_steps + 1
         ELSE UNCHANGED << ir_series_q, ir_series_ted, ir_steps >>
    /\ UNCHANGED << laterVars, ir_summary, ir_kind, ir_active, ir_report,
                    signalVars, mcVars, regimeVars, seenLog, configVars,
                    adapterVars, returned, pc, step_index, prev_pred, prev_cumulative,
                    obs_step, step_id, step_features, cumulative, signals, headPos,
                    pred, head_summaries, headCalls, reporterVars, trace >>

\* reporter.finish(): the aggregates, the recommendations and the written file
InsightFinish ==
    /\ pc = "insight"
    /\ IsNone(ir_report)
    /\ IF finishes(ir_kind, ir_active, ir_steps)
       THEN LET avg_q   == rounded_mean(ir_series_q)
                avg_ted == rounded_mean(ir_series_ted)
            IN  /\ ir_summary' = Some([ avg_q |-> avg_q, avg_ted |-> avg_ted,
                                        steps |-> ir_steps,
                                        recommendations |-> recommendations(avg_q, avg_ted) ])
                /\ ir_report' = Some([ written |-> TRUE, keys |-> summary_keys ])
       ELSE /\ ir_summary' = ir_summary
            /\ ir_report' = Some([ written |-> FALSE, keys |-> {} ])
    /\ UNCHANGED << laterVars, ir_series_q, ir_series_ted, ir_steps, ir_kind, ir_active,
                    signalVars, mcVars, regimeVars,
                    seenLog, configVars, adapterVars, returned, pc, step_index, prev_pred,
                    prev_cumulative, obs_step, step_id, step_features, cumulative,
                    signals, headPos, pred, head_summaries, headCalls, reporterVars,
                    trace >>

InsightNext == InsightStart \/ InsightRecord \/ InsightFinish

InsightSpec == InsightInit /\ [][InsightNext]_vars

-----------------------------------------------------------------------------
(* adapters/curriculum/preprocess.py and adapters/conversation/preprocess.py:
   process called directly on a RawStream.  A raw frame is a Python set; the
   sequence of its edges is the order in which the set is iterated.  Step t
   of a stream is element t + 1 of its sequence of frames. *)

MaxFrameLen == 3
MaxPreSteps == 3
MaxCap == 2

\* node ids of the raw streams: PreKnown are keys of raw.nodes, PreMissing is not
PreKnown == 0 .. 2
PreMissing == 3
PreNodeIds == PreKnown \cup { PreMissing }

\* what the label of a raw node is to the preprocessors:
\*   concept  "Lecture 1"             kept, type concept
\*   reading  "Chapter 3", kind reading   kept, type reading
\*   stopped  "Syllabus" / "the"      a stop node / a stop term
\*   nav      "Contact" / "x"         navigation token / shorter than min_length
NodeClasses == { "concept", "reading", "stopped", "nav" }

PreKinds == { "curriculum", "conversation" }

\* CurriculumPreprocessor._infer_type: the weight of a node of raw.nodes
infer_weight(class) ==
    CASE class = "concept" -> One
      [] class = "reading" -> Rat(4, 5)
      [] class = "stopped" -> Rat(3, 10)
      [] class = "nav"     -> Rat(1, 20)

\* CurriculumPreprocessor._node_weight: type_weights["unknown"] for a node
\* without an entry
node_weight(nodes, u) ==
    IF u \in DOMAIN nodes THEN infer_weight(nodes[u]) ELSE Rat(1, 2)

\* the stop tests of CurriculumPreprocessor._keep_edge on the label of u; the
\* label of a node without an entry is "", which only a stop pattern matches
label_stopped(config, nodes, u) ==
    IF u \in DOMAIN nodes THEN nodes[u] = "stopped" ELSE config.blank_stopped

keep_threshold == Rat(1, 10)

\* CurriculumPreprocessor._keep_edge
curriculum_keep_edge(config, nodes, edge) ==
    /\ ~label_stopped(config, nodes, edge[1])
    /\ ~label_stopped(config, nodes, edge[2])
    /\ ~Lt(PyMin(node_weight(nodes, edge[1]), node_weight(nodes, edge[2])), keep_threshold)

\* ConversationPreprocessor._keep_term
keep_term(class) == class \in { "concept", "reading" }

\* ConversationPreprocessor._keep_edge, nodes being the ids of the kept terms
conversation_keep_edge(kept, edge) ==
    /\ edge[1] # edge[2]
    /\ edge[1] \in kept /\ edge[2] \in kept

Reverse(seq) == [ i \in 1 .. Len(seq) |-> seq[Len(seq) + 1 - i] ]

\* the loop shared by the two _cap_step methods: result as a set
RECURSIVE cap_scan(_, _, _, _)
cap_scan(edges, cap, deg, result) ==
    IF edges = << >> THEN result
    ELSE LET u == Head(edges)[1]
             v == Head(edges)[2]
         IN  IF deg[u] >= cap \/ deg[v] >= cap
             THEN cap_scan(Tail(edges), cap, deg, result)
             ELSE LET deg_u == [ deg EXCEPT ![u] = @ + 1 ]
                      deg_v == [ deg_u EXCEPT ![v] = @ + 1 ]
                  IN  cap_scan(Tail(edges), cap, deg_v, result \cup { Head(edges) })

NoDegrees == [ n \in PreNodeIds |-> 0 ]

\* ConversationPreprocessor._cap_step: the edges in the order given
conversation_cap_step(edges, cap) == cap_scan(edges, cap, NoDegrees, {})

\* CurriculumPreprocessor._cap_step: indexed_edges.sort(key=lambda item: -item[0])
\* puts the last edge first
curriculum_cap_step(edges, cap) == cap_scan(Reverse(edges), cap, NoDegrees, {})

\* [edge for edge in edges if self._keep_edge(...)] followed by _cap_step
filter_step(kind, config, nodes, edges) ==
    IF kind = "curriculum"
    THEN curriculum_cap_step(
             SelectSeq(edges, LAMBDA e : curriculum_keep_edge(config, nodes, e)),
             config.cap)
    ELSE LET kept == { n \in DOMAIN nodes : keep_term(nodes[n]) }
         IN  conversation_cap_step(
                 SelectSeq(edges, LAMBDA e : conversation_keep_edge(kept, e)),
                 config.cap)

\* used_nodes: the endpoints of the processed obs and true frames
used_nodes(obs, true) ==
    { n \in PreNodeIds :
        \E t \in 1 .. Len(obs) : \E e \in obs[t] : n \in { e[1], e[2] } }
    \cup
    { n \in PreNodeIds :
        \E t \in 1 .. Len(true) : \E e \in true[t] : n \in { e[1], e[2] } }

\* ---- trusted connectivity pass of CurriculumPreprocessor.process ----------

trusted_alpha == Rat(2, 5)
trusted_beta  == Rat(1, 5)
trusted_gamma == Rat(1, 5)
trusted_delta == Rat(1, 5)
trusted_tau   == Rat(3, 5)

\* edge_freq[e] once the first loop over sorted(obs_steps) is over: the number
\* of steps of the whole stream that hold e
edge_freq(obs, e) == Cardinality({ t \in 1 .. Len(obs) : e \in obs[t] })

\* edge_freq restricted to the steps up to and including s
edge_freq_upto(obs, s, e) == Cardinality({ t \in 1 .. s + 1 : e \in obs[t] })

\* last_seen[e] once the first loop is over (only read for an edge of some step)
last_seen(obs, e) ==
    (CHOOSE t \in 1 .. Len(obs) :
        e \in obs[t] /\ \A t2 \in 1 .. Len(obs) : e \in obs[t2] => t2 <= t) - 1

\* w(tags) inside authority(u, v); a node without tags weighs 0.5
tag_weight(nodes, u) ==
    IF u \notin DOMAIN nodes THEN Rat(1, 2)
    ELSE CASE nodes[u] = "concept" -> Rat(7, 10)
           [] nodes[u] = "reading" -> Rat(3, 5)
           [] OTHER                -> Rat(1, 2)

authority(nodes, u, v) == PyMin(tag_weight(nodes, u), tag_weight(nodes, v))

\* q_edge of edge e at step s, freq being the frequency the pass reads
q_edge(nodes, obs, s, e, freq) ==
    LET verif == PyMin(One, Rat(freq, 5))
        auth  == authority(nodes, e[1], e[2])
        dist  == Max(0, s - last_seen(obs, e))
        rec   == Rat(1, 1 + dist)
        loc   == PyMin(node_weight(nodes, e[1]), node_weight(nodes, e[2]))
    IN  Add(Add(Mul(trusted_alpha, verif), Mul(trusted_beta, auth)),
            Add(Mul(trusted_gamma, rec), Mul(trusted_delta, loc)))

\* trusted_now at step s with the frequencies of the steps up to s only
trusted_now_upto(nodes, obs, s) ==
    { e \in obs[s + 1] :
        ~Lt(q_edge(nodes, obs, s, e, edge_freq_upto(obs, s, e)), trusted_tau) }

\* trusted_now at step s
trusted_now(nodes, obs, s) ==
    { e \in obs[s + 1] : ~Lt(q_edge(nodes, obs, s, e, edge_freq(obs, e)), trusted_tau) }

\* ted_trusted from trusted_now and trusted_prev
ted_trusted(now, prev) ==
    IF now \cup prev = {} THEN Zero
    ELSE Round3(Sub(One, Rat(Cardinality(now \cap prev), Cardinality(now \cup prev))))

\* the trusted_edge_count and ted_trusted features of every step
trusted_features(nodes, obs) ==
    [ t \in 1 .. Len(obs) |->
        LET now  == trusted_now(nodes, obs, t - 1)
            prev == IF t = 1 THEN {} ELSE trusted_now(nodes, obs, t - 2)
        IN  [ trusted_edge_count |-> Cardinality(now),
              ted_trusted |-> ted_trusted(now, prev) ] ]

\* CurriculumPreprocessor.process / ConversationPreprocessor.process
process(kind, config, raw) ==
    LET obs  == [ t \in 1 .. Len(raw.obs_steps) |->
                    filter_step(kind, config, raw.nodes, raw.obs_steps[t]) ]
        true == [ t \in 1 .. Len(raw.true_steps) |->
                    filter_step(kind, config, raw.nodes, raw.true_steps[t]) ]
        kept == IF kind = "curriculum" THEN DOMAIN raw.nodes
                ELSE { n \in DOMAIN raw.nodes : keep_term(raw.nodes[n]) }
        used == used_nodes(obs, true)
        nodes == [ n \in kept \cap used |-> raw.nodes[n] ]
    IN  [ nodes |-> DOMAIN nodes,
          obs_steps |-> obs,
          true_steps |-> true,
          step_features |-> IF kind = "curriculum" THEN trusted_features(nodes, obs)
                            ELSE << >> ]

\* ---- the raw streams handed to process -----------------------------------

EdgeUniverse == { << 0, 0 >>, << 0, 1 >>, << 1, 2 >>, << 2, 0 >>, << 1, PreMissing >> }

\* the iteration orders of the subsets of a set of edges, up to a length
RawFrames(edges, n) ==
    { f \in UNION { [ 1 .. k -> edges ] : k \in 0 .. n } :
        \A i, j \in 1 .. Len(f) : i # j => f[i] # f[j] }

\* one-step streams over every class of node 2, for the filter and the cap
FilterStreams ==
    { [ nodes |-> (0 :> "concept") @@ (1 :> "concept") @@ (2 :> c),
        obs_steps |-> << f >>,
        true_steps |-> << g >> ] :
      c \in NodeClasses,
      f \in RawFrames(EdgeUniverse, MaxFrameLen),
      g \in { << >>, << << 0, 0 >>, << 1, PreMissing >> >> } }

\* streams of several steps over reading and concept nodes, for the trusted pass
TrustedFrames == { << >>, << << 0, 1 >> >>, << << 1, 2 >> >>, << << 0, 1 >>, << 1, 2 >> >> }

TrustedStreams ==
    { [ nodes |-> (0 :> "reading") @@ (1 :> "reading") @@ (2 :> "concept"),
        obs_steps |-> o,
        true_steps |-> [ t \in 1 .. Len(o) |-> << >> ] ] :
      o \in UNION { [ 1 .. k -> TrustedFrames ] : k \in 1 .. MaxPreSteps } }

\* topk_per_node / max_degree, and whether a stop pattern matches the blank
\* label (the default patterns do; a conversation has no stop patterns)
PreConfigs(kind) ==
    { [ cap |-> c, blank_stopped |-> b ] :
        c \in 1 .. MaxCap,
        b \in IF kind = "curriculum" THEN BOOLEAN ELSE { FALSE } }

\* the preprocessor is constructed and a RawStream is at hand
PreInit ==
    /\ NoDataset
    /\ InitIdle
    /\ SignalIdle /\ McIdle /\ RegimeIdle /\ InsightIdle /\ ForecastIdle /\ DynamicsIdle
    /\ pp_kind \in PreKinds
    /\ pp_config \in PreConfigs(pp_kind)
    /\ \/ pp_raw \in { Some(r) : r \in FilterStreams }
       \/ /\ pp_kind = "curriculum"
          /\ pp_raw \in { Some(r) : r \in TrustedStreams }
    /\ pp_out = None
    /\ pc = "preprocess"

\* preprocessor.process(raw)
PreProcess ==
    /\ pc = "preprocess"
    /\ IsNone(pp_out)
    /\ pp_out' = Some(process(pp_kind, pp_config, pp_raw[1]))
    /\ UNCHANGED << pp_kind, pp_config, pp_raw, forecastVars, dynamicsVars,
                    signalVars, mcVars, regimeVars,
                    insightVars, seenLog, configVars, adapterVars, returned, pc,
                    step_index, prev_pred, prev_cumulative, obs_step, step_id,
                    step_features, cumulative, signals, headPos, pred, head_summaries,
                    headCalls, reporterVars, trace >>

PreNext == PreProcess

PreSpec == PreInit /\ [][PreNext]_vars

-----------------------------------------------------------------------------
(* core/forecast_head.py: ForecastHead, per_step called directly *)

MaxWindowSize == 2
MaxForecastSteps == 3

\* ForecastHead._classify_step
classify_step(features) ==
    IF ~Lt(Zero, features.q) THEN "empty"
    ELSE IF Lt(Rat(2, 5), features.assessment_fraction) /\ Lt(Rat(1, 5), features.concept_fraction)
         THEN "checkpoint"
    ELSE IF Lt(Rat(11, 20), features.concept_fraction) /\ Lt(features.assessment_fraction, Rat(1, 4))
         THEN "concept_dense"
    ELSE IF Lt(Rat(9, 20), features.reading_fraction) /\ Lt(features.assessment_fraction, Rat(1, 5))
         THEN "reading_heavy"
    ELSE IF Lt(Rat(7, 20), features.ted) THEN "transition"
    ELSE "mixed"

\* `label not in ("empty", "", None)`
counted(label) == label \notin { "empty", "" }

\* self._step_types[-self.window_size:]; -0 is 0 and the slice is the whole list
last_labels(step_types, window_size) ==
    IF window_size = 0 THEN step_types
    ELSE SubSeq(step_types, Max(1, Len(step_types) - window_size + 1), Len(step_types))

Occurrences(seq, label) == Cardinality({ i \in 1 .. Len(seq) : seq[i] = label })

\* Counter(filtered).most_common(1)[0][0]: the highest count, and among equal
\* counts the label met first
most_common(filtered) ==
    LET first(label) == CHOOSE i \in 1 .. Len(filtered) :
                            filtered[i] = label /\ \A j \in 1 .. i - 1 : filtered[j] # label
    IN  CHOOSE label \in { filtered[i] : i \in 1 .. Len(filtered) } :
            \A other \in { filtered[i] : i \in 1 .. Len(filtered) } :
                \/ Occurrences(filtered, other) < Occurrences(filtered, label)
                \/ /\ Occurrences(filtered, other) = Occurrences(filtered, label)
                   /\ first(label) <= first(other)

\* ForecastHead._predict_next_type
predict_next_type(step_types, window_size) ==
    LET window   == last_labels(step_types, window_size)
        filtered == SelectSeq(window, counted)
    IN  IF filtered = << >> THEN "unknown" ELSE most_common(filtered)

\* ForecastHead.per_step: the new _history and _step_types and the dict returned
forecast_per_step(window_size, history, step_types, t, base_signals, sf) ==
    LET features == [ t |-> t, q |-> base_signals.q, ted |-> base_signals.ted,
                      concept_fraction |-> sf.concept_fraction,
                      assessment_fraction |-> sf.assessment_fraction,
                      reading_fraction |-> sf.reading_fraction ]
        step_type == IF IsNone(sf.step_type) \/ sf.step_type = Some("")
                     THEN classify_step(features) ELSE sf.step_type[1]
        types == Append(step_types, step_type)
    IN  [ history |-> Append(history, features),
          step_types |-> types,
          out |-> [ step_type_inferred |-> step_type,
                    next_step_type_pred |-> predict_next_type(types, window_size) ] ]

\* base signals and fractions of a step, one for each outcome of _classify_step
ForecastSignals ==
    { [ q |-> Zero, ted |-> Zero ], [ q |-> Rat(1, 2), ted |-> Rat(1, 10) ],
      [ q |-> Rat(1, 2), ted |-> Rat(2, 5) ] }

ForecastFractions ==
    { [ concept_fraction |-> Rat(3, 10), assessment_fraction |-> Rat(1, 2),
        reading_fraction |-> Zero ],
      [ concept_fraction |-> Rat(3, 5), assessment_fraction |-> Rat(1, 10),
        reading_fraction |-> Zero ],
      [ concept_fraction |-> Zero, assessment_fraction |-> Rat(1, 10),
        reading_fraction |-> Rat(1, 2) ],
      [ concept_fraction |-> Zero, assessment_fraction |-> Rat(3, 10),
        reading_fraction |-> Zero ] }

\* step_features["step_type"]: absent, blank, or a label of the preprocessor
SuppliedTypes == { None, Some(""), Some("empty"), Some("checkpoint") }

\* ForecastHead(config) followed by init_course
ForecastInit ==
    /\ NoDataset
    /\ InitIdle
    /\ SignalIdle /\ McIdle /\ RegimeIdle /\ InsightIdle /\ PreprocIdle /\ DynamicsIdle
    /\ fh_window_size \in 1 .. MaxWindowSize
    /\ fh_history = << >>
    /\ fh_step_types = << >>
    /\ fh_out = None
    /\ pc = "forecast"

\* head.per_step(frame, base_signals)
ForecastPerStep ==
    /\ pc = "forecast"
    /\ Len(fh_history) < MaxForecastSteps
    /\ \E base \in ForecastSignals, fractions \in ForecastFractions, type \in SuppliedTypes :
         LET sf == [ concept_fraction |-> fractions.concept_fraction,
                     assessment_fraction |-> fractions.assessment_fraction,
                     reading_fraction |-> fractions.reading_fraction,
                     step_type |-> type ]
             r == forecast_per_step(fh_window_size, fh_history, fh_step_types,
                                    Len(fh_history), base, sf)
         IN  /\ fh_history' = r.history
             /\ fh_step_types' = r.step_types
             /\ fh_out' = Some(r.out)
    /\ UNCHANGED << fh_window_size, preprocVars, dynamicsVars, signalVars, mcVars, regimeVars,
                    insightVars, seenLog, configVars, adapterVars, returned, pc,
                    step_index, prev_pred, prev_cumulative, obs_step, step_id,
                    step_features, cumulative, signals, headPos, pred, head_summaries,
                    headCalls, reporterVars, trace >>

ForecastNext == ForecastPerStep

ForecastSpec == ForecastInit /\ [][ForecastNext]_vars

-----------------------------------------------------------------------------
(* reporters/curriculum_dynamics.py: CurriculumDynamicsReporter, driven as
   Engine.run drives a reporter: record once per step, the head summaries
   stored in reporter.summary, then finish *)

MaxDynSteps == 3
MaxChangePoints == 2

\* CurriculumDynamicsReporter._build_phases
build_phases(change_points, total_steps) ==
    IF change_points = << >> \/ total_steps <= 0 THEN << >>
    ELSE LET points == sortedInts({ change_points[i] : i \in 1 .. Len(change_points) }
                                  \cap (0 .. total_steps - 1))
             start_of(k) == IF k = 1 THEN 0 ELSE points[k - 1] + 1
             split == [ k \in 1 .. Len(points) |->
                          [ phase |-> k, start |-> start_of(k), end |-> points[k] ] ]
             start == start_of(Len(points) + 1)
         IN  IF start < total_steps
             THEN Append(split, [ phase |-> Len(points) + 1, start |-> start,
                                  end |-> total_steps - 1 ])
             ELSE split

\* the change_points lists a regime summary may hold, out-of-range and repeated
\* entries included
ChangePointLists ==
    UNION { [ 1 .. k -> -1 .. MaxDynSteps ] : k \in 0 .. MaxChangePoints }

\* CurriculumDynamicsReporter.__init__
DynInit ==
    /\ NoDataset
    /\ InitIdle
    /\ SignalIdle /\ McIdle /\ RegimeIdle /\ InsightIdle /\ PreprocIdle /\ ForecastIdle
    /\ cd_steps = << >>
    /\ cd_regime = None
    /\ cd_phases = None
    /\ pc = "dynamics"

\* reporter.record(step, signals, meta, pred, regret)
DynRecord ==
    /\ pc = "dynamics"
    /\ IsNone(cd_phases)
    /\ IsNone(cd_regime)
    /\ Len(cd_steps) < MaxDynSteps
    /\ cd_steps' = Append(cd_steps, Len(cd_steps))
    /\ UNCHANGED << cd_regime, cd_phases, preprocVars, forecastVars, signalVars, mcVars,
                    regimeVars, insightVars, seenLog, configVars, adapterVars, returned, pc,
                    step_index, prev_pred, prev_cumulative, obs_step, step_id,
                    step_features, cumulative, signals, headPos, pred, head_summaries,
                    headCalls, reporterVars, trace >>

\* reporter.summary["head_summaries"] = head_summaries, with the change_points of
\* the regime_change head
DynHeadSummaries ==
    /\ pc = "dynamics"
    /\ IsNone(cd_phases)
    /\ IsNone(cd_regime)
    /\ \E cps \in ChangePointLists : cd_regime' = Some(cps)
    /\ UNCHANGED << cd_steps, cd_phases, preprocVars, forecastVars, signalVars, mcVars,
                    regimeVars, insightVars, seenLog, configVars, adapterVars, returned, pc,
                    step_index, prev_pred, prev_cumulative, obs_step, step_id,
                    step_features, cumulative, signals, headPos, pred, head_summaries,
                    headCalls, reporterVars, trace >>

\* reporter.finish(): regime.get("change_points", []) and len(steps)
DynFinish ==
    /\ pc = "dynamics"
    /\ IsNone(cd_phases)
    /\ cd_phases' = Some(build_phases(IF IsNone(cd_regime) THEN << >> ELSE cd_regime[1],
                                      Len(cd_steps)))
    /\ UNCHANGED << cd_steps, cd_regime, preprocVars, forecastVars, signalVars, mcVars,
                    regimeVars, insightVars, seenLog, configVars, adapterVars, returned, pc,
                    step_index, prev_pred, prev_cumulative, obs_step, step_id,
                    step_features, cumulative, signals, headPos, pred, head_summaries,
                    headCalls, reporterVars, trace >>

DynNext == DynRecord \/ DynHeadSummaries \/ DynFinish

DynSpec == DynInit /\ [][DynNext]_vars

-----------------------------------------------------------------------------
(* core/engine.py, Engine.run: the cumulative edge set and the ted that
   DefaultSignalComputer.compute returns for it, over the steps of a run
   whose step_features hold no ted *)

MaxRunSteps == 3

RunEdges == { << 0, 1 >>, << 1, 2 >> }

\* a frame of BigSize edges, for a cumulative set that one new edge hardly changes
BigSize == 2000
BigFrame == { << 9, k >> : k \in 10 .. 9 + BigSize }

\* the frames stream.next_obs() returns at step t
RunFrames(t) == (SUBSET RunEdges) \cup (IF t = 0 THEN { BigFrame } ELSE {})

\* the step_features of a stream without ted
RunFeatures == { NoFeatures, [ NoFeatures EXCEPT !.quality = Some(Rat(4, 5)) ] }

\* Engine.__init__ with the default signal computer, and the locals of run
RunInit ==
    /\ NoDataset
    /\ InitIdle
    /\ McIdle /\ RegimeIdle /\ InsightIdle /\ LaterIdle
    /\ sc_config = [compute_spread |-> FALSE, compute_locality |-> FALSE]
    /\ sc_prev_ted = None
    /\ sc_args = None
    /\ sc_out = None
    /\ sc_prev_out = None
    /\ pc = "run_loop"

\* obs_step = stream.next_obs(); cumulative = set(prev_cumulative or set()) | obs_step
RunNextObs ==
    /\ pc = "run_loop"
    /\ step_index < MaxRunSteps
    /\ \E frame \in RunFrames(step_index) :
         /\ obs_step' = frame
         /\ cumulative' = OrElse(prev_cumulative, {}) \cup frame
    /\ pc' = "run_compute"
    /\ UNCHANGED << componentVars, seenLog, configVars, adapterVars, returned, step_index,
                    prev_pred, prev_cumulative, step_id, step_features, signals, headPos,
                    pred, head_summaries, headCalls, reporterVars, trace >>

\* signal_computer.compute(obs_t=cumulative, prev_obs=prev_cumulative, ...)
RunCompute ==
    /\ pc = "run_compute"
    /\ \E sf \in RunFeatures :
         LET r == compute(sc_config, sc_prev_ted, cumulative, prev_cumulative, sf) IN
         /\ sc_args' = Some([obs_t |-> cumulative, prev_obs |-> prev_cumulative,
                             step_features |-> sf])
         /\ sc_out' = Some(r.signals)
         /\ sc_prev_ted' = r.prev_ted
         /\ sc_prev_out' = IF IsNone(sc_out) THEN None ELSE Some(sc_out[1].ted)
    /\ pc' = "run_advance"
    /\ UNCHANGED << laterVars, sc_config, mcVars, regimeVars, insightVars, seenLog, configVars,
                    adapterVars, returned, step_index, prev_pred, prev_cumulative,
                    obs_step, step_id, step_features, cumulative, signals, headPos, pred,
                    head_summaries, headCalls, reporterVars, trace >>

\* prev_cumulative = cumulative; step_index += 1
RunAdvance ==
    /\ pc = "run_advance"
    /\ prev_cumulative' = Some(cumulative)
    /\ step_index' = step_index + 1
    /\ pc' = "run_loop"
    /\ UNCHANGED << componentVars, seenLog, configVars, adapterVars, returned, prev_pred,
                    obs_step, step_id, step_features, cumulative, signals, headPos, pred,
                    head_summaries, headCalls, reporterVars, trace >>

RunNext == RunNextObs \/ RunCompute \/ RunAdvance

RunSpec == RunInit /\ [][RunNext]_vars

-----------------------------------------------------------------------------
(* Properties of Engine.run *)

IsPrefix(a, b) == Len(a) <= Len(b) /\ SubSeq(b, 1, Len(a)) = a

\* core_config.heads restricted to the registered names, in the declared order
RegisteredHeads == SelectSeq(headNames, LAMBDA n : n \in HEAD_REGISTRY)

IsLoopEvent(e) == e.ev \in { "next_obs", "compute", "per_step", "policy", "record" }

Kinds(tr) == [i \in 1 .. Len(tr) |-> << tr[i].ev, tr[i].t, tr[i].head >>]

\* the events of step t in the order the engine must make them
ExpectedStep(t) ==
    << << "next_obs", t, "" >>, << "compute", t, "" >> >>
    \o [i \in 1 .. Len(RegisteredHeads) |-> << "per_step", t, RegisteredHeads[i] >>]
    \o << << "policy", t, "" >>, << "record", t, "" >> >>

RECURSIVE ExpectedUpTo(_)
ExpectedUpTo(n) == IF n = 0 THEN << >> ELSE ExpectedUpTo(n - 1) \o ExpectedStep(n - 1)

\* C1: the loop events of a run are, step after step, next_obs, compute, the
\* per_step of every enabled head, policy, record; the events of step t+1
\* start only after the record of step t
C1_StepOrder ==
    LET lt == Kinds(SelectSeq(trace, IsLoopEvent))
    IN  IsPrefix(lt, ExpectedUpTo(Len(lt)))

C1_Witness ==
    /\ pc = "done"
    /\ Len(recorded) >= 2
    /\ Len(signal_heads) >= 2

\* C2: within a step the heads run in the order of core_config.heads and each
\* is handed a signals map that holds, from this very step, every key returned
\* by the heads before it
C2_HeadsSeeEarlierExtras ==
    /\ Len(seenLog) <= Len(RegisteredHeads)
    /\ \A i \in 1 .. Len(seenLog) :
        /\ seenLog[i].head = RegisteredHeads[i]
        /\ BaseKeys \subseteq DOMAIN seenLog[i].seen
        /\ \A j \in 1 .. i - 1 : \A k \in PerStepKeys(RegisteredHeads[j]) :
               /\ k \in DOMAIN seenLog[i].seen
               /\ seenLog[i].seen[k].t = seenLog[i].t
               /\ seenLog[i].seen[k].by = RegisteredHeads[j]

C2_Witness ==
    /\ step_index >= 1
    /\ Len(seenLog) = 2
    /\ seenLog[2].head = "forecast"
    /\ "change_score" \in DOMAIN seenLog[2].seen

\* the heads whose finalize_course() returns a non-empty summary after n steps
NonEmptySummaries(n) ==
    { RegisteredHeads[i] : i \in 1 .. Len(RegisteredHeads) } \ 
    (IF n = 0 THEN { "monte_carlo", "forecast" } ELSE {})

C3_Safety ==
    /\ finishCalls <= 1
    /\ Len(recorded) <= Len(steps)
    /\ \A i \in 1 .. Len(recorded) : recorded[i].step = i - 1
    /\ pc = "done" =>
        /\ Len(recorded) = Len(steps)
        /\ finishCalls = 1
        /\ Kinds(SelectSeq(trace, LAMBDA e : e.ev = "finalize"))
             = [i \in 1 .. Len(RegisteredHeads) |-> << "finalize", Len(steps), RegisteredHeads[i] >>]
        /\ reporter_head_summaries =
             (IF NonEmptySummaries(Len(steps)) = {} THEN None
              ELSE Some(NonEmptySummaries(Len(steps))))
        /\ trace[Len(trace)].ev = "finish"
        /\ \A i, j \in 1 .. Len(trace) :
               trace[i].ev = "record" /\ trace[j].ev \in { "finalize", "finish" } => i < j

\* C3: a run over an adapter holding N steps ends; reporter.record is called
\* N times with the step indices 0..N-1 in increasing order, then every head
\* is finalized once, the non-empty summaries are attached under
\* head_summaries and reporter.finish is called once, after the last record
C3_RunTerminates == [] C3_Safety /\ <> (pc = "done")

C3_Witness ==
    /\ pc = "done"
    /\ Len(recorded) = MaxStepId + 1
    /\ reporter_head_summaries = Some({ "monte_carlo", "forecast", "regime_change" })

-----------------------------------------------------------------------------
(* Properties of the stream adapters *)

\* every step of the dataset, observed or truth-only, in ascending order
AllSteps == sortedInts(DOMAIN obs_steps \cup DOMAIN true_steps)

ObsOf(s) == IF s \in DOMAIN obs_steps THEN obs_steps[s] ELSE {}

\* C4: the k-th next_obs() returns the observed frame of the k-th step of
\* sorted(obs_steps.keys | true_steps.keys) (empty for a truth-only step) and
\* has_more() stays true until all of them are returned; afterwards next_obs()
\* returns an empty frame, leaves the cursor alone and has_more() is false
C4_CursorCoversAllSteps ==
    ~scramble =>
        \A k \in 1 .. Len(returned) :
            IF k <= Len(AllSteps)
            THEN /\ returned[k].frame = ObsOf(AllSteps[k])
                 /\ returned[k].after = returned[k].at + 1
                 /\ returned[k].more = (k < Len(AllSteps))
            ELSE /\ returned[k].frame = {}
                 /\ returned[k].after = returned[k].at
                 /\ returned[k].more = FALSE

\* the same statement for the two adapters that build their cursor from both
\* key sets
C4_UnionAdaptersOnly == adapterKind \in UnionKinds => C4_CursorCoversAllSteps

\* C5: the step_features the engine hands to compute, the heads and the
\* reporter are the ProcessedStream.step_features entry of the dataset step
\* whose frame next_obs just returned, and are empty only if it has no entry
C5_FeaturesOfReturnedStep ==
    /\ pc \in { "compute", "heads", "record" } =>
           step_features = ProcessedFeatures(steps[idx])
    /\ \A i \in 1 .. Len(recorded) : recorded[i].meta = ProcessedFeatures(steps[i])

-----------------------------------------------------------------------------
(* Properties of the policies *)

Called == pc = "policy" /\ ~IsNone(pred)

StickyInUnit(cfg) ==
    0 <= cfg.sticky_fraction[1] /\ cfg.sticky_fraction[1] <= cfg.sticky_fraction[2]

Capped(cfg) == cfg.kind = "capacity" /\ ~IsNone(cfg.max_edges) /\ cfg.max_edges[1] > 0

\* C6: with max_edges > 0, sticky_fraction in [0,1] and max_nodes unset,
\* every predicted frame has at most max_edges edges and is a subset of the
\* current observation (no edge of prev_pred survives outside obs_t)
C6_BoundedSubsetOfObs ==
    (Called /\ Capped(polCfg) /\ StickyInUnit(polCfg) /\ IsNone(polCfg.max_nodes)) =>
        /\ Cardinality(pred[1]) <= polCfg.max_edges[1]
        /\ pred[1] \subseteq obs_step
        /\ (OrElse(prev_pred, {}) \ obs_step) \cap pred[1] = {}

C6_Witness ==
    /\ Called /\ Capped(polCfg) /\ StickyInUnit(polCfg) /\ IsNone(polCfg.max_nodes)
    /\ Cardinality(obs_step) > polCfg.max_edges[1]
    /\ Cardinality(pred[1]) = polCfg.max_edges[1]
    /\ OrElse(prev_pred, {}) \ obs_step # {}
    /\ OrElse(prev_pred, {}) \cap obs_step # {}

ZeroCapacity(cfg) == cfg.kind = "capacity" /\ cfg.max_edges = Some(0)

Smallest(X, k) == { e \in X : Cardinality({ f \in X : EdgeLess(f, e) }) < k }

\* C8: the selection is the sticky_budget smallest edges of prev_pred & obs_t,
\* then the smallest edges of obs_t - prev_pred up to max_edges in total, then
\* the smallest remaining edges of prev_pred & obs_t up to max_edges in total
C8_SelectionOrder ==
    (Called /\ Capped(polCfg) /\ StickyInUnit(polCfg) /\ IsNone(polCfg.max_nodes)) =>
        LET m  == polCfg.max_edges[1]
            sb == (m * polCfg.sticky_fraction[1]) \div polCfg.sticky_fraction[2]
            I  == OrElse(prev_pred, {}) \cap obs_step
            N  == obs_step \ OrElse(prev_pred, {})
            k1 == Min(sb, Cardinality(I))
            k2 == Min(m - k1, Cardinality(N))
            k3 == Min(m - k1 - k2, Cardinality(I) - k1)
            S1 == Smallest(I, k1)
        IN  pred[1] = S1 \cup Smallest(N, k2) \cup Smallest(I \ S1, k3)

\* max_edges=3, sticky_fraction=0.5 (sticky_space 1), prev_pred={(0,1),(1,2)},
\* obs={(0,1),(0,2),(1,2),(2,3)}: one sticky edge (0,1), then the new edges
\* (0,2),(2,3) fill the frame and the second sticky edge (1,2) is left out
C8_Witness ==
    /\ Called
    /\ polCfg = [kind |-> "capacity", max_edges |-> Some(3), max_nodes |-> None,
                 sticky_fraction |-> << 1, 2 >>]
    /\ prev_pred = Some({ << 0, 1 >>, << 1, 2 >> })
    /\ obs_step = { << 0, 1 >>, << 0, 2 >>, << 1, 2 >>, << 2, 3 >> }
    /\ pred = Some({ << 0, 1 >>, << 0, 2 >>, << 2, 3 >> })

\* C9: the frame returned by a call is determined by (prev_pred, obs_t,
\* config): no iteration order of the underlying sets yields another frame,
\* also when max_nodes is set
C9_OrderIndependent ==
    Called => PolicyStep(polCfg, prev_pred, obs_step) = { pred[1] }

Degree(edges, n) ==
    Cardinality({ e \in edges : e[1] = n }) + Cardinality({ e \in edges : e[2] = n })

\* C10: when max_nodes is set, no node of the returned frame has more than
\* max_nodes incident edges
C10_NodeCapacity ==
    (Called /\ Capped(polCfg) /\ ~IsNone(polCfg.max_nodes)) =>
        \A n \in 0 .. PolMaxNode : Degree(pred[1], n) <= polCfg.max_nodes[1]

InvalidConfig(cfg) ==
    /\ cfg.kind = "capacity"
    /\ \/ (~IsNone(cfg.max_edges) /\ cfg.max_edges[1] < 0)
       \/ ~StickyInUnit(cfg)

\* C11: a policy whose max_edges is negative or whose sticky_fraction lies
\* outside [0,1] is rejected at construction, so no step is ever executed
\* with such a configuration
C11_InvalidConfigRejected == InvalidConfig(polCfg) => ~Called

-----------------------------------------------------------------------------
(* Properties of Engine.__init__ *)

HasUnknownName ==
    \/ adapterKind \notin AdapterKinds
    \/ \E i \in 1 .. Len(headNames) : headNames[i] \notin HEAD_REGISTRY

\* C12: an engine given an unregistered adapter or head name fails at
\* construction: it never starts a run (the trace stays empty), so no
\* configured head is silently left out of one
C12_UnknownNamesRejected == HasUnknownName => trace = << >>

-----------------------------------------------------------------------------
(* Properties of DefaultSignalComputer.compute *)

Computed == pc = "signals" /\ ~IsNone(sc_out)

InUnit(x) == IsFinite(x) /\ ~Lt(x, Zero) /\ ~Lt(One, x)

\* C13: whatever the frames and the step_features, the q, ted and stability
\* returned by compute lie in [0,1], and so does spread when it is computed
C13_SignalsInUnitInterval ==
    Computed =>
        /\ InUnit(sc_out[1].q)
        /\ InUnit(sc_out[1].ted)
        /\ InUnit(sc_out[1].stability)
        /\ (~IsNone(sc_out[1].spread) => InUnit(sc_out[1].spread[1]))

\* 1 - |A \cap B| / |A \cup B|
JaccardDistance(A, B) ==
    Rat(Cardinality(A \cup B) - Cardinality(A \cap B), Cardinality(A \cup B))

\* C14: the returned ted is step_features.ted rounded to 3 decimals when that
\* is a finite number; otherwise it is 0 when prev_obs is None or both edge
\* sets are empty, and else the Jaccard distance of obs_t and prev_obs rounded
\* to 3 decimals
C14_TedSource ==
    Computed =>
        LET a == sc_args[1]
            f == a.step_features.ted
        IN  sc_out[1].ted =
                IF ~IsNone(f) /\ IsFinite(f[1]) THEN Round3(f[1])
                ELSE IF IsNone(a.prev_obs) THEN Zero
                ELSE IF a.obs_t = {} /\ a.prev_obs[1] = {} THEN Zero
                ELSE Round3(JaccardDistance(a.obs_t, a.prev_obs[1]))

\* C15: ted_delta is None on the first call of a computer and on every later
\* call it is the ted returned by this call minus the ted returned by the
\* call before, rounded to 3 decimals
C15_TedDelta ==
    Computed =>
        sc_out[1].ted_delta =
            IF IsNone(sc_prev_out) THEN None
            ELSE Some(Round3(Sub(sc_out[1].ted, sc_prev_out[1])))

EmptyFrameCall ==
    /\ Computed
    /\ sc_args[1].obs_t = {}
    /\ IsNone(sc_args[1].prev_obs)
    /\ sc_args[1].step_features = NoFeatures

\* C16: compute on an empty obs_t with prev_obs = None and no step_features
\* returns q = 0, ted = 0 and stability = 1, with spread 0 and no locality
\* node when these are enabled
C16_EmptyFrameSignals ==
    EmptyFrameCall =>
        /\ sc_out[1].q = Zero
        /\ sc_out[1].ted = Zero
        /\ sc_out[1].stability = One
        /\ (sc_config.compute_spread => sc_out[1].spread = Some(Zero))
        /\ (sc_config.compute_locality => sc_out[1].locality_nodes = Some(<< >>))

C16_Witness ==
    /\ EmptyFrameCall
    /\ sc_config.compute_spread /\ sc_config.compute_locality
    /\ ~IsNone(sc_prev_out)
    /\ sc_out[1].ted_delta = Some(Rat(0 - 1, 2))

-----------------------------------------------------------------------------
(* Properties of MonteCarloHead *)

Deterministic(config) ==
    config.num_samples = 1 /\ config.edge_dropout = Zero /\ config.weight_jitter = Zero

\* C17: with num_samples = 1, edge_dropout = 0 and weight_jitter = 0, at
\* every step of a run, the first included, both standard deviations are 0,
\* q_mc_mean is the signal computer's fallback q and ted_mc_mean is its
\* fallback ted for the same cumulative and previous cumulative edge sets
C17_DeterministicMonteCarlo ==
    (pc = "mc" /\ ~IsNone(mc_out) /\ Deterministic(mc_config)) =>
        /\ mc_out[1].q_mc_std = Zero
        /\ mc_out[1].ted_mc_std = Zero
        /\ mc_out[1].q_mc_mean = fallback_quality(cumulative, mc_frame[1].step_features)
        /\ mc_out[1].ted_mc_mean = fallback_ted(cumulative, prev_cumulative)

-----------------------------------------------------------------------------
(* Properties of RegimeChangeHead *)

\* C18: with window W >= 1, after T steps every change point c satisfies
\* W <= c <= T - W - 1
C18_ChangePointsInsideWindows ==
    (pc = "regime" /\ rg_config.window >= 1) =>
        \A i \in 1 .. Len(rg_change_points) :
            /\ rg_config.window <= rg_change_points[i]
            /\ rg_change_points[i] <= Len(rg_history) - rg_config.window - 1

C18_Witness ==
    /\ pc = "regime"
    /\ rg_config.window = 1
    /\ Len(rg_history) = 4
    /\ rg_change_points = << 1, 2 >>
    /\ ~IsNone(rg_summary)

\* the four steps of the scenario fed to RegimeChangeHead(window=1,
\* threshold=0.05), and the course finalized
ScenarioF ==
    /\ pc = "regime"
    /\ rg_config = [window |-> 1, threshold |-> Milli(50)]
    /\ rg_history = << LowVec, LowVec, HighVec, HighVec >>
    /\ ~IsNone(rg_summary)

\* C19 as stated: the scenario ends with change_points containing 1 and
\* num_change_points = 1
C19_ScenarioOneChangePoint ==
    ScenarioF =>
        /\ \E i \in 1 .. Len(rg_summary[1].change_points) : rg_summary[1].change_points[i] = 1
        /\ rg_summary[1].num_change_points = 1

\* C19 amended: the scenario ends with change_points = [1, 2] and
\* num_change_points = 2
C19_ScenarioTwoChangePoints ==
    ScenarioF =>
        /\ rg_summary[1].change_points = << 1, 2 >>
        /\ rg_summary[1].num_change_points = 2

C19_Witness == ScenarioF /\ rg_summary[1].num_change_points = 2

-----------------------------------------------------------------------------
(* Properties of InsightReporter.finish *)

Emits(rec) ==
    \E i \in 1 .. Len(ir_summary[1].recommendations) : ir_summary[1].recommendations[i] = rec

\* C20: finish emits the high-drift recommendation exactly when avg_ted > 0.6,
\* the quality-lagging recommendation exactly when avg_q < 0.4, whatever the
\* value of avg_q in [0,1], and the nominal message exactly when it emits
\* neither of the two
C20_Recommendations ==
    (pc = "insight" /\ ~IsNone(ir_summary)) =>
        LET avg_q   == ir_summary[1].avg_q
            avg_ted == ir_summary[1].avg_ted
        IN  /\ Emits("high_drift") <=> (~IsNone(avg_ted) /\ Lt(Milli(600), avg_ted[1]))
            /\ Emits("quality_lagging") <=> (~IsNone(avg_q) /\ Lt(avg_q[1], Milli(400)))
            /\ Emits("nominal") <=> (~Emits("high_drift") /\ ~Emits("quality_lagging"))

\* C21: after start, any number of record calls and finish, the report written
\* by the curriculum_insight reporter contains the curriculum highlights, and
\* the one written by the conversation_insight reporter its own highlights
C21_HighlightsWritten ==
    (pc = "insight" /\ ~IsNone(ir_report)) =>
        /\ ir_kind = "curriculum_insight" =>
             ir_report[1].written /\ "curriculum_highlights" \in ir_report[1].keys
        /\ ir_kind = "conversation_insight" =>
             ir_report[1].written /\ "conversation_highlights" \in ir_report[1].keys

ProcessedDone == pc = "preprocess" /\ ~IsNone(pp_out)

\* C22: in every ProcessedStream that a domain preprocessor returns, every edge
\* (u, v) of every obs and true frame has u # v and both u and v are keys of
\* nodes
C22_ProcessedEdgesWellFormed ==
    ProcessedDone =>
        LET out == pp_out[1]
        IN  \A t \in 1 .. Len(out.obs_steps) :
              \A e \in out.obs_steps[t] \cup out.true_steps[t] :
                e[1] # e[2] /\ e[1] \in out.nodes /\ e[2] \in out.nodes

SpreadComputed == pc = "spread" /\ ~IsNone(sc_out)

\* P is the set of the connected components of edges taken as undirected: the
\* maximal sets of nodes joined by a path
IsComponentPartition(P, edges) ==
    /\ UNION P = NodesOf(edges)
    /\ \A c \in P : c # {} /\ \A n \in c : Grow({n}, edges) = c

\* the components are few and small enough for the entropy not to round to 0
NotSkewed(P) == \A c \in P : Cardinality(c) < SkewSize

Forecast == pc = "forecast" /\ ~IsNone(fh_out)

\* the most recent n of the non-empty labels seen so far
RecentLabels(step_types, n) ==
    LET seen == SelectSeq(step_types, counted)
    IN  SubSeq(seen, Max(1, Len(seen) - n + 1), Len(seen))

\* C24: after every per_step, next_step_type_pred is the most frequent label
\* among the most recent window_size non-empty labels seen so far in the
\* course, and is "unknown" only when no non-empty label has been seen
C24_PredictionIsModeOfRecentLabels ==
    Forecast =>
        LET recent == RecentLabels(fh_step_types, fh_window_size)
            guess  == fh_out[1].next_step_type_pred
        IN  IF recent = << >> THEN guess = "unknown"
            ELSE /\ guess # "unknown"
                 /\ \A i \in 1 .. Len(recent) :
                      Occurrences(recent, recent[i]) <= Occurrences(recent, guess)

\* the last per_step call came to the comparison of the two windows
RegimeEvaluated ==
    /\ pc = "regime"
    /\ ~IsNone(rg_out)
    /\ ~rg_out[1].raised
    /\ Len(rg_history) >= 2 * rg_config.window + 1

\* C25: once 2*window+1 history entries exist, per_step takes center =
\* len-1-window and appends it to the change points exactly when the distance
\* between the means of [center-window, center) and [center+1, center+1+window)
\* exceeds threshold
C25_AppendsWhenScoreExceedsThreshold ==
    RegimeEvaluated =>
        LET k      == rg_config.window
            center == Len(rg_history) - 1 - k
            before == SubSeq(rg_history, center - k + 1, center)
            after  == SubSeq(rg_history, center + 2, center + 1 + k)
            thr_sq == Mul(rg_config.threshold, rg_config.threshold)
        IN  /\ rg_out[1].change_score_sq = l2_distance_sq(average(before), average(after))
            /\ (\E i \in 1 .. Len(rg_change_points) : rg_change_points[i] = center)
                 <=> Lt(thr_sq, rg_out[1].change_score_sq)

\* the edges of a raw frame that the preprocessor's _keep_edge lets through, in
\* the order of the frame
KeptInOrder(edges) ==
    IF pp_kind = "curriculum"
    THEN SelectSeq(edges, LAMBDA e : curriculum_keep_edge(pp_config, pp_raw[1].nodes, e))
    ELSE SelectSeq(edges, LAMBDA e :
             conversation_keep_edge({ n \in DOMAIN pp_raw[1].nodes :
                                        keep_term(pp_raw[1].nodes[n]) }, e))

\* the scan in insertion order that skips an edge when an endpoint already has
\* cap kept edges
RECURSIVE ScanInOrder(_, _, _)
ScanInOrder(edges, cap, kept) ==
    IF edges = << >> THEN kept
    ELSE LET full(n) == Cardinality({ e \in kept : n = e[1] }) +
                        Cardinality({ e \in kept : n = e[2] }) >= cap
             e0 == Head(edges)
         IN  ScanInOrder(Tail(edges), cap,
                         IF full(e0[1]) \/ full(e0[2]) THEN kept ELSE kept \cup { e0 })

IncidentEdges(frame, n) == { e \in frame : n \in { e[1], e[2] } }

\* C26: every processed frame is what a scan of the step's kept edges in
\* insertion order leaves when it skips an edge with an endpoint that already
\* has cap kept edges, and no node has more than cap incident edges in it
C26_CapScansInInsertionOrder ==
    ProcessedDone =>
        LET out == pp_out[1]
            raw == pp_raw[1]
        IN  \A t \in 1 .. Len(out.obs_steps) :
              /\ out.obs_steps[t] =
                   ScanInOrder(KeptInOrder(raw.obs_steps[t]), pp_config.cap, {})
              /\ out.true_steps[t] =
                   ScanInOrder(KeptInOrder(raw.true_steps[t]), pp_config.cap, {})
              /\ \A n \in PreNodeIds :
                   /\ Cardinality(IncidentEdges(out.obs_steps[t], n)) <= pp_config.cap
                   /\ Cardinality(IncidentEdges(out.true_steps[t], n)) <= pp_config.cap

\* C27: in the trusted pass of the curriculum preprocessor the verification
\* of an edge at step s is min(1, f/5) with f the number of steps up to and
\* including s that hold the edge, so that trusted_edge_count and ted_trusted
\* of step s are what the frames of the steps up to s give
C27_TrustedPassIgnoresLaterSteps ==
    (ProcessedDone /\ pp_kind = "curriculum") =>
        LET out == pp_out[1]
            nodes == pp_raw[1].nodes
        IN  \A t \in 1 .. Len(out.obs_steps) :
              LET now  == trusted_now_upto(nodes, out.obs_steps, t - 1)
                  prev == IF t = 1 THEN {}
                          ELSE trusted_now_upto(nodes, out.obs_steps, t - 2)
              IN  /\ out.step_features[t].trusted_edge_count = Cardinality(now)
                  /\ out.step_features[t].ted_trusted = ted_trusted(now, prev)

\* finish has written the phases of a run of at least one step
PhasesWritten == pc = "dynamics" /\ ~IsNone(cd_phases) /\ Len(cd_steps) >= 1

\* the change points that finish read
ChangePointsRead ==
    IF IsNone(cd_regime) THEN {}
    ELSE { cd_regime[1][i] : i \in 1 .. Len(cd_regime[1]) }

\* C28: for a run of N >= 1 steps and any list of change points, the empty one
\* included, the phases are consecutive ascending index ranges that do not
\* overlap, cover 0 .. N-1 exactly and end at each in-range change point
C28_PhasesCoverRun ==
    PhasesWritten =>
        LET ph == cd_phases[1]
            N  == Len(cd_steps)
            inrange == ChangePointsRead \cap (0 .. N - 1)
        IN  /\ Len(ph) >= 1
            /\ ph[1].start = 0
            /\ ph[Len(ph)].end = N - 1
            /\ \A i \in 1 .. Len(ph) : ph[i].phase = i /\ ph[i].start <= ph[i].end
            /\ \A i \in 1 .. Len(ph) - 1 : ph[i + 1].start = ph[i].end + 1
            /\ { ph[i].end : i \in 1 .. Len(ph) } \ { N - 1 } = inrange \ { N - 1 }

\* C29: per_step never raises, whatever the window: with an empty comparison
\* window (window = 0) the division by its length is guarded and the
\* change_score is 0.0
C29_PerStepNeverRaises ==
    (pc = "regime" /\ ~IsNone(rg_out)) =>
        /\ ~rg_out[1].raised
        /\ rg_config.window = 0 => rg_out[1].change_score_sq = Zero

\* the signals of a step t >= 1 of the run are computed; prev_cumulative is
\* still the cumulative set of step t - 1
TedReported == pc = "run_advance" /\ step_index >= 1

\* the edges first observed at the current step
NewEdges == cumulative \ OrElse(prev_cumulative, {})

\* the number of new edges over the size of the cumulative set, 0 when empty
NewShare ==
    IF cumulative = {} THEN Zero
    ELSE Rat(Cardinality(NewEdges), Cardinality(cumulative))

\* C30: in a run whose step_features supply no ted the cumulative set never
\* shrinks, the reported ted of step t >= 1 is the number of edges first
\* observed at step t over the size of the cumulative set (0 when it is
\* empty), and ted = 0 exactly when step t adds no new edge
C30_TedIsShareOfNewEdges ==
    /\ pc = "run_advance" => OrElse(prev_cumulative, {}) \subseteq cumulative
    /\ TedReported =>
         /\ sc_out[1].ted = NewShare
         /\ sc_out[1].ted = Zero <=> NewEdges = {}

\* C30 as the code has it: the cumulative set never shrinks, the reported ted
\* of step t >= 1 is that share rounded to three decimals, it is 0 when step t
\* adds no new edge and above 0 when the new edges are more than one in 2000
\* of the cumulative set
C30_TedIsRoundedShareOfNewEdges ==
    /\ pc = "run_advance" => OrElse(prev_cumulative, {}) \subseteq cumulative
    /\ TedReported =>
         /\ sc_out[1].ted = Round3(NewShare)
         /\ NewEdges = {} => sc_out[1].ted = Zero
         /\ 2000 * Cardinality(NewEdges) > Cardinality(cumulative) => Lt(Zero, sc_out[1].ted)

\* a step after the first has added an edge to a cumulative set that had some
C30_Witness ==
    /\ TedReported
    /\ NewEdges # {}
    /\ prev_cumulative[1] # {}
    /\ Lt(Zero, sc_out[1].ted)

\* a new edge that the rounding hides
C30_HiddenEdge == TedReported /\ NewEdges # {} /\ sc_out[1].ted = Zero

====
